---------------------------- MODULE Spec2Model ----------------------------
(***************************************************************************)
(* Stargazr frontend (vmenon04/darksky): the App component's state and     *)
(* handlers, the LocationInput form, and the pure computations of          *)
(* RecommendationCard and of the sorted zone view.                         *)
(*                                                                         *)
(* One step of the model is one run-to-completion piece of JavaScript: the *)
(* synchronous part of an event handler up to its first await, or the      *)
(* continuation that runs when an awaited promise settles or a timer       *)
(* fires.  React state is a variable per useState hook.                    *)
(***************************************************************************)
EXTENDS Integers, Sequences, FiniteSets, TLC

VARIABLES
    \* App.tsx useState hooks (lines 14-28)
    location, userCurrentLocation, darkSkyZones, recommendations, loading,
    error, activeTab, sortBy, displayLimit, loadingMore, animationKey,
    previousDisplayLimit, selectedZoneForRecommendations,
    loadingRecommendations, recommendationDays,
    \* pending asynchronous work of App: backend calls and timers
    calls, nextId, loadMoreTimers,
    \* LocationInput useState hooks (part_001 lines 12-18)
    zipcode, latitude, longitude, formError, gettingLocation, isGeocoding,
    showManualInput,
    \* the geocoding or geolocation promise LocationInput is awaiting
    pendingLookup,
    \* the last RecommendationCard rendered
    card,
    \* a DarkSkyZoneCard: its useState hooks, its props and its pending hint
    \* timers; and a card of the component's earlier version, whose map
    \* buttons ask the browser for the position
    zoneCard, mapCard,
    \* observation of the last step: the handler that ran, the requests it
    \* issued, and the fetches whose await completed successfully, in order
    lastEvent, issued, resolved

appData == <<location, userCurrentLocation, darkSkyZones, recommendations, error>>
appView == <<activeTab, sortBy, displayLimit, loadingMore, animationKey,
             previousDisplayLimit, loadMoreTimers>>
appRecs == <<selectedZoneForRecommendations, loadingRecommendations,
             recommendationDays, loading>>
net     == <<calls, nextId>>
form    == <<zipcode, latitude, longitude, formError, gettingLocation,
             isGeocoding, showManualInput, pendingLookup>>
cards   == <<card, zoneCard, mapCard>>
hist    == <<lastEvent, issued, resolved>>
vars    == <<appData, appView, appRecs, net, form, cards, hist>>

None == "none"

-----------------------------------------------------------------------------
(* RecommendationCard: the combined score                                   *)

\* visibility_score and weather_score are percentages
MaxScore == 100
Scores == 0..MaxScore

NoWeather == [present |-> FALSE]
Weather(w) == [present |-> TRUE, weather_score |-> w]
Conditions == [visibility_score : Scores,
               weather : {NoWeather} \cup {Weather(w) : w \in Scores}]

DefaultWeatherScore == 50
AstronomyWeight == 6    \* 0.6, in tenths
WeatherWeight == 4      \* 0.4, in tenths

\* conditions.weather?.weather_score || 50 : the default replaces every falsy
\* value, which for a number is a missing one and 0
weatherScoreNoFallback(conditions) ==
    IF conditions.weather.present THEN conditions.weather.weather_score ELSE 0

weatherScore(conditions) ==
    IF ~conditions.weather.present THEN DefaultWeatherScore
    ELSE IF conditions.weather.weather_score = 0 THEN DefaultWeatherScore
    ELSE conditions.weather.weather_score

\* Math.round of a non-negative value given in tenths: floor(x + 0.5)
MathRoundTenths(t) == (t + 5) \div 10

\* Math.round((astronomyScore * 0.6) + (weatherScore * 0.4)).  For integer
\* scores 6A + 4W is even, so the sum is never within rounding error of a
\* half and the floating-point sum rounds as the exact one does.
combinedScore(conditions) ==
    MathRoundTenths(conditions.visibility_score * AstronomyWeight
                    + weatherScore(conditions) * WeatherWeight)

\* getVisibilityColor(score) (lines 34-39)
getVisibilityColor(score) ==
    IF score >= 80 THEN "text-green-400"
    ELSE IF score >= 60 THEN "text-yellow-400"
    ELSE IF score >= 40 THEN "text-orange-400"
    ELSE "text-red-400"

\* getScoreColor(score) (lines 48-55)
getScoreColor(score) ==
    IF score >= 80 THEN "text-green-400"
    ELSE IF score >= 70 THEN "text-lime-400"
    ELSE IF score >= 60 THEN "text-yellow-400"
    ELSE IF score >= 50 THEN "text-orange-400"
    ELSE IF score >= 40 THEN "text-red-400"
    ELSE "text-red-500"

NoCard == [rendered |-> FALSE]

RenderRecommendationCard(conditions) ==
    /\ card' = [rendered |-> TRUE,
                conditions |-> conditions,
                astronomyScore |-> conditions.visibility_score,
                weatherScore |-> weatherScore(conditions),
                combinedScore |-> combinedScore(conditions),
                \* the text colours of lines 121, 131-132 and 138-139; the
                \* weather line is rendered when conditions.weather is there
                combinedColor |-> getScoreColor(combinedScore(conditions)),
                astronomyColor |-> getVisibilityColor(conditions.visibility_score),
                weatherShown |-> conditions.weather.present,
                weatherColor |-> getScoreColor(weatherScore(conditions))]
    /\ UNCHANGED <<appData, appView, appRecs, net, form, hist, zoneCard, mapCard>>

\* the longest recommendation list of the model
MaxRecommendations == 3

\* the conditions of the listed days: the ends and the middle of each score,
\* with and without weather data
ListedScores == {0, 50, 100}
ListedConditions ==
    { c \in Conditions :
         /\ c.visibility_score \in ListedScores
         /\ c.weather.present => c.weather.weather_score \in ListedScores }

\* the combined score of a day as section 4.2 of the specification defines
\* it for the backend: the default stands in for missing weather data only
referenceCombinedScore(conditions) ==
    MathRoundTenths(conditions.visibility_score * AstronomyWeight
                    + (IF conditions.weather.present
                       THEN conditions.weather.weather_score
                       ELSE DefaultWeatherScore) * WeatherWeight)

\* the recommendation lists of a backend answer.  Nothing in the client
\* orders them; the lists taken here are in the order that suits a Best
\* Recommendation label on the first card: best combined score first
RecommendationLists ==
    { list \in UNION { [1..n -> ListedConditions] : n \in 0..MaxRecommendations } :
         \A i \in DOMAIN list : \A j \in DOMAIN list :
             i < j => referenceCombinedScore(list[i]) >= referenceCombinedScore(list[j]) }

\* recommendations.map (App.tsx lines 353-367): a RecommendationCard for each
\* recommendation, in the order of the list, the first one with
\* isTopRecommendation (index === 0); each card computes its combined score
\* (RecommendationCard.tsx lines 78-81) and shows the Best Recommendation
\* label when isTopRecommendation (lines 87-92)
RenderRecommendations(list) ==
    /\ card' = [rendered |-> TRUE,
                recommendations |-> list,
                cards |-> [i \in DOMAIN list |->
                             [isTopRecommendation |-> i = 1,
                              combinedScore |-> combinedScore(list[i])]]]
    /\ UNCHANGED <<appData, appView, appRecs, net, form, hist, zoneCard, mapCard>>

-----------------------------------------------------------------------------
(* App: the sorted, truncated zone view (useMemo, App.tsx lines 31-49)      *)

\* the largest number of zones a backend response holds in the model
MaxZones == 6
\* the initial display limit and the load-more increment
InitialDisplayLimit == 5
LoadMoreStep == 5

SortOptions == {"distance", "bortle", "name"}

\* A DarkSkyZone.  name is the zone's unique name, given as its rank in the
\* locale's collation order (what localeCompare compares); distance_miles in
\* whole miles.  Several zones share a distance and several a Bortle class.
ZoneNames == 1..MaxZones
Zone(k) == [name |-> k,
            distance_miles |-> (k * 3) % 4,
            bortle_scale |-> 1 + (k % 3)]

Injective(s) == \A i, j \in DOMAIN s : s[i] = s[j] => i = j

\* every backend answer: distinct zones in any order
ZoneLists ==
    { [i \in DOMAIN names |-> Zone(names[i])] :
        names \in { s \in UNION { [1..n -> ZoneNames] : n \in 0..MaxZones } :
                        Injective(s) } }

\* the comparator passed to Array.prototype.sort: negative, zero or positive
compareZonesDescending(a, b, by) ==
    CASE by = "distance" -> b.distance_miles - a.distance_miles
      [] by = "bortle"   -> b.bortle_scale - a.bortle_scale
      [] by = "name"     -> b.name - a.name
      [] OTHER           -> 0

compareZones(a, b, by) ==
    CASE by = "distance" -> a.distance_miles - b.distance_miles
      [] by = "bortle"   -> a.bortle_scale - b.bortle_scale
      [] by = "name"     -> a.name - b.name     \* a.name.localeCompare(b.name)
      [] OTHER           -> 0

\* Array.prototype.sort is stable (ECMAScript 2019): an element goes after
\* every element that does not compare greater than it
RECURSIVE InsertZone(_, _, _)
InsertZone(z, sorted, by) ==
    IF sorted = << >> THEN << z >>
    ELSE IF compareZones(Head(sorted), z, by) <= 0
         THEN << Head(sorted) >> \o InsertZone(z, Tail(sorted), by)
         ELSE << z >> \o sorted

RECURSIVE SortZones(_, _)
SortZones(zones, by) ==
    IF zones = << >> THEN << >>
    ELSE InsertZone(zones[Len(zones)],
                    SortZones(SubSeq(zones, 1, Len(zones) - 1), by), by)

Min(a, b) == IF a < b THEN a ELSE b

\* Array.prototype.slice(0, n)
Slice0(s, n) == SubSeq(s, 1, Min(n, Len(s)))

sortedZones(zones, by, limit) ==
    IF Len(zones) = 0 THEN << >>
    ELSE Slice0(SortZones(zones, by), limit)

sortedDarkSkyZones == sortedZones(darkSkyZones, sortBy, displayLimit)

-----------------------------------------------------------------------------
(* LocationInput: the text of the fields and what the handlers read from it *)

\* A string is a sequence of one-character strings.  Numbers are integers in
\* units of 10^-FracDigits; the coordinate texts of the model have at most
\* FracDigits fraction digits.
FracDigits == 1

RECURSIVE Pow10(_)
Pow10(n) == IF n = 0 THEN 1 ELSE 10 * Pow10(n - 1)

Unit == Pow10(FracDigits)

DigitChars == <<"0", "1", "2", "3", "4", "5", "6", "7", "8", "9">>
IsDigit(c) == \E d \in DOMAIN DigitChars : DigitChars[d] = c
DigitValue(c) == (CHOOSE d \in DOMAIN DigitChars : DigitChars[d] = c) - 1
IsWhitespace(c) == c = " "

RECURSIVE TrimStart(_)
TrimStart(s) ==
    IF s # << >> /\ IsWhitespace(Head(s)) THEN TrimStart(Tail(s)) ELSE s

RECURSIVE TrimEnd(_)
TrimEnd(s) ==
    IF s # << >> /\ IsWhitespace(s[Len(s)])
    THEN TrimEnd(SubSeq(s, 1, Len(s) - 1)) ELSE s

\* String.prototype.trim
Trim(s) == TrimEnd(TrimStart(s))

\* the length of the longest prefix of s made of digits
RECURSIVE DigitPrefixLen(_)
DigitPrefixLen(s) ==
    IF s # << >> /\ IsDigit(Head(s)) THEN 1 + DigitPrefixLen(Tail(s)) ELSE 0

\* the value of a digit string
RECURSIVE DigitsValue(_)
DigitsValue(ds) ==
    IF ds = << >> THEN 0
    ELSE 10 * DigitsValue(SubSeq(ds, 1, Len(ds) - 1)) + DigitValue(ds[Len(ds)])

\* the value, in units, of the fraction digits ds (the first FracDigits count)
FractionValue(ds) ==
    LET kept == SubSeq(ds, 1, Min(FracDigits, Len(ds)))
    IN  DigitsValue(kept) * Pow10(FracDigits - Len(kept))

NaN == [nan |-> TRUE]
Number(v) == [nan |-> FALSE, value |-> v]

\* parseFloat: leading white space is skipped, then the longest prefix that is
\* a decimal literal (sign, digits, point, digits) is read and what follows it
\* is ignored; NaN when there is no such prefix.  (Exponents and "Infinity"
\* are not among the texts of the model.)
parseFloat(s) ==
    LET t        == TrimStart(s)
        signed   == t # << >> /\ Head(t) \in {"-", "+"}
        negative == t # << >> /\ Head(t) = "-"
        body     == IF signed THEN Tail(t) ELSE t
        nInt     == DigitPrefixLen(body)
        afterInt == SubSeq(body, nInt + 1, Len(body))
        hasPoint == afterInt # << >> /\ Head(afterInt) = "."
        nFrac    == IF hasPoint THEN DigitPrefixLen(Tail(afterInt)) ELSE 0
        fracPart == IF hasPoint THEN SubSeq(Tail(afterInt), 1, nFrac) ELSE << >>
        magnitude == DigitsValue(SubSeq(body, 1, nInt)) * Unit
                     + FractionValue(fracPart)
    IN  IF nInt = 0 /\ nFrac = 0 THEN NaN
        ELSE Number(IF negative THEN 0 - magnitude ELSE magnitude)

isNaN(x) == x.nan

\* Number.prototype.toString of a number given in units
RECURSIVE NatToString(_)
NatToString(n) ==
    IF n < 10 THEN << DigitChars[n + 1] >>
    ELSE NatToString(n \div 10) \o << DigitChars[(n % 10) + 1] >>

RECURSIVE FractionToString(_, _)
FractionToString(f, width) ==
    \* f < 10^width, printed without trailing zeros
    IF f = 0 THEN << >>
    ELSE << DigitChars[(f \div Pow10(width - 1)) + 1] >>
         \o FractionToString(f % Pow10(width - 1), width - 1)

NumberToString(v) ==
    LET m == IF v < 0 THEN 0 - v ELSE v
        frac == FractionToString(m % Unit, FracDigits)
    IN  (IF v < 0 THEN << "-" >> ELSE << >>)
        \o NatToString(m \div Unit)
        \o (IF frac = << >> THEN << >> ELSE << "." >> \o frac)

\* the bounds of the range checks, in degrees
MaxLatitude == 90
MaxLongitude == 180

OkMessage == "ok"

\* the three checks of handleSubmit on the parsed coordinates, in order:
\* the message of the first that fails, or OkMessage
validateCoordinatesNoLongitudeCheck(lat, lng) ==
    IF isNaN(lat) \/ isNaN(lng)
    THEN "Please enter valid latitude and longitude values"
    ELSE IF lat.value < 0 - MaxLatitude * Unit \/ lat.value > MaxLatitude * Unit
    THEN "Latitude must be between -90 and 90"
    ELSE OkMessage

validateCoordinates(lat, lng) ==
    IF isNaN(lat) \/ isNaN(lng)
    THEN "Please enter valid latitude and longitude values"
    ELSE IF lat.value < 0 - MaxLatitude * Unit \/ lat.value > MaxLatitude * Unit
    THEN "Latitude must be between -90 and 90"
    ELSE IF lng.value < 0 - MaxLongitude * Unit \/ lng.value > MaxLongitude * Unit
    THEN "Longitude must be between -180 and 180"
    ELSE OkMessage

AllDigits(s) == \A i \in DOMAIN s : IsDigit(s[i])

\* /^\d{5}(-\d{4})?$/.test(s)
zipcodeRegexTestPrefix(s) ==
    Len(s) >= 5 /\ AllDigits(SubSeq(s, 1, 5))

zipcodeRegexTest(s) ==
    \/ Len(s) = 5 /\ AllDigits(s)
    \/ /\ Len(s) = 10
       /\ AllDigits(SubSeq(s, 1, 5))
       /\ s[6] = "-"
       /\ AllDigits(SubSeq(s, 7, 10))

-----------------------------------------------------------------------------
(* api.ts: the requests and the errors                                      *)

\* the number of backend fetches (a location search counts once) one
\* behaviour of the model issues
MaxCalls == 3

NoLocation == [set |-> FALSE]
Location(lat, lng, name) ==
    [set |-> TRUE, latitude |-> lat, longitude |-> lng, name |-> name]

\* selectedZoneForRecommendations === null
NoZone == 0

\* the options of the days selector
DayOptions == {3, 5, 7, 10, 14}
InitialDays == 7

\* findDarkSkyZones(location, limit): POST /find-dark-sky-zones
findDarkSkyZones(loc, limit) ==
    [endpoint |-> "/find-dark-sky-zones", body |-> loc,
     params |-> [limit |-> limit]]

\* getStargazingRecommendations(location, zoneName, days):
\* POST /stargazing-recommendations; zone_name is sent only when truthy
getStargazingRecommendationsAlwaysDefault(loc, zoneName, days) ==
    [endpoint |-> "/stargazing-recommendations", body |-> loc,
     params |-> [days |-> InitialDays]]

getStargazingRecommendations(loc, zoneName, days) ==
    [endpoint |-> "/stargazing-recommendations", body |-> loc,
     params |-> IF zoneName # NoZone
                THEN [days |-> days, zone_name |-> zoneName]
                ELSE [days |-> days]]

\* what a failed axios call carries: error.response?.status (0 when there
\* is no response, as on a network error) and, in error.response.data.detail,
\* a retry_after and a message, each of which may be missing
ApiFailure(status, hasRetryAfter, retry_after, hasMessage, message) ==
    [status |-> status,
     hasRetryAfter |-> hasRetryAfter, retry_after |-> retry_after,
     hasMessage |-> hasMessage, message |-> message]

ApiFailures ==
    { ApiFailure(429, FALSE, 0, FALSE, ""),
      ApiFailure(429, TRUE, 30, FALSE, ""),
      ApiFailure(429, TRUE, 30, TRUE, "slow down"),
      ApiFailure(429, TRUE, 0, FALSE, ""),
      ApiFailure(500, FALSE, 0, TRUE, "Location out of range"),
      ApiFailure(500, TRUE, 30, TRUE, "Location out of range"),
      ApiFailure(500, FALSE, 0, TRUE, ""),
      ApiFailure(500, FALSE, 0, FALSE, ""),
      ApiFailure(0, FALSE, 0, FALSE, "") }

DefaultRetryAfter == 60

\* handleApiError(error, defaultMessage): the message of the Error it throws.
\* retry_after || 60 replaces a missing retry_after and 0; the test of
\* detail.message is false for a missing message and for ""
handleApiError(failure, defaultMessage) ==
    IF failure.status = 429
    THEN "Rate limit exceeded. Please wait "
         \o ToString(IF failure.hasRetryAfter /\ failure.retry_after # 0
                     THEN failure.retry_after ELSE DefaultRetryAfter)
         \o " seconds before trying again."
    ELSE IF failure.hasMessage /\ failure.message # "" THEN failure.message
    ELSE defaultMessage

ZonesDefaultMessage == "Failed to find dark sky zones"
RecommendationsDefaultMessage == "Failed to get stargazing recommendations"

\* the body of a successful /stargazing-recommendations answer to the fetch
\* numbered id: one recommendation per requested day
RecommendationsResponse(id, days) ==
    [i \in 1..days |-> [date |-> i, fetch |-> id]]

-----------------------------------------------------------------------------
(* App: the handlers                                                        *)

\* handleLocationSubmit(newLocation, isCurrentLocation), up to its await.
\* closureDays is the recommendationDays of the render whose
\* handleLocationSubmit the caller holds: LocationInput's handlers read the
\* onLocationSubmit prop of the render in which the user started them, so
\* after an await they still call that render's function.
handleLocationSubmit(newLocation, isCurrentLocation, closureDays, via) ==
    /\ location' = newLocation
    /\ userCurrentLocation' =
           IF isCurrentLocation THEN newLocation ELSE userCurrentLocation
    /\ displayLimit' = InitialDisplayLimit
    /\ previousDisplayLimit' = 0
    /\ animationKey' = "search"
    /\ selectedZoneForRecommendations' = NoZone
    /\ loading' = TRUE
    /\ error' = None
    /\ calls' = calls \cup
           { [id |-> nextId, kind |-> "search", location |-> newLocation,
              zone_name |-> NoZone, days |-> closureDays, phase |-> "sent",
              zones |-> "pending", zonesData |-> << >>,
              recs |-> "pending"] }
    /\ nextId' = nextId + 1
    /\ issued' = { findDarkSkyZones(newLocation, 0),
                   getStargazingRecommendations(newLocation, NoZone, closureDays) }
    /\ lastEvent' = [handler |-> "handleLocationSubmit", via |-> via,
                     id |-> nextId, location |-> newLocation,
                     isCurrentLocation |-> isCurrentLocation]
    /\ UNCHANGED <<darkSkyZones, recommendations, activeTab, sortBy,
                   loadingMore, loadMoreTimers, loadingRecommendations,
                   recommendationDays, resolved, cards>>

\* the recommendationsData a fetch's await yields (response.data.recommendations)
recommendationsDataUnlessStale(c) ==
    IF c.id = nextId - 1 THEN RecommendationsResponse(c.id, c.days)
    ELSE recommendations

recommendationsData(c) == RecommendationsResponse(c.id, c.days)

SearchCalls == { c \in calls : c.kind = "search" }

\* the call with one of its two requests answered; it leaves calls once both are
Answered(c, c2) ==
        IF c2.zones # "pending" /\ c2.recs # "pending"
        THEN calls \ {c}
        ELSE (calls \ {c}) \cup {c2}

\* Promise.all resolved: lines 73-74, then finally
SearchSucceeds(c, zonesData) ==
    /\ darkSkyZones' = zonesData
    /\ recommendations' = recommendationsData(c)
    /\ loading' = FALSE
    /\ resolved' = Append(resolved, c.id)
    /\ lastEvent' = [handler |-> "searchResolved", id |-> c.id]
    /\ UNCHANGED error

\* a variant whose catch block returns before the finally block's work
SearchFailsKeepsLoading(c, failure, defaultMessage) ==
    /\ error' = handleApiError(failure, defaultMessage)
    /\ lastEvent' = [handler |-> "searchRejected", id |-> c.id,
                     failure |-> failure, defaultMessage |-> defaultMessage]
    /\ UNCHANGED <<darkSkyZones, recommendations, resolved, loading>>

\* a variant whose catch block also empties the zone list
SearchFailsClearsZones(c, failure, defaultMessage) ==
    /\ error' = handleApiError(failure, defaultMessage)
    /\ loading' = FALSE
    /\ darkSkyZones' = << >>
    /\ lastEvent' = [handler |-> "searchRejected", id |-> c.id,
                     failure |-> failure, defaultMessage |-> defaultMessage]
    /\ UNCHANGED <<recommendations, resolved>>

\* Promise.all rejected with the first rejection: catch, then finally
SearchFails(c, failure, defaultMessage) ==
    /\ error' = handleApiError(failure, defaultMessage)
    /\ loading' = FALSE
    /\ lastEvent' = [handler |-> "searchRejected", id |-> c.id,
                     failure |-> failure, defaultMessage |-> defaultMessage]
    /\ UNCHANGED <<darkSkyZones, recommendations, resolved>>

\* an answer Promise.all no longer (or does not yet) act on
SearchWaits(c) ==
    /\ lastEvent' = [handler |-> "searchResponse", id |-> c.id]
    /\ UNCHANGED <<darkSkyZones, recommendations, loading, error, resolved>>

SearchFrame ==
    /\ issued' = {}
    /\ UNCHANGED <<location, userCurrentLocation, appView,
                   selectedZoneForRecommendations, loadingRecommendations,
                   recommendationDays, nextId, form, cards>>

\* /find-dark-sky-zones answers with response.data.dark_sky_zones
SearchZonesResolve(c, zonesData) ==
    /\ c \in SearchCalls /\ c.zones = "pending"
    /\ calls' = Answered(c, [c EXCEPT !.zones = "ok", !.zonesData = zonesData])
    /\ IF c.recs = "ok" THEN SearchSucceeds(c, zonesData) ELSE SearchWaits(c)
    /\ SearchFrame

SearchZonesReject(c, failure) ==
    /\ c \in SearchCalls /\ c.zones = "pending"
    /\ calls' = Answered(c, [c EXCEPT !.zones = "failed"])
    /\ IF c.recs # "failed"
       THEN SearchFails(c, failure, ZonesDefaultMessage)
       ELSE SearchWaits(c)
    /\ SearchFrame

\* /stargazing-recommendations answers with response.data.recommendations
SearchRecsResolve(c) ==
    /\ c \in SearchCalls /\ c.recs = "pending"
    /\ calls' = Answered(c, [c EXCEPT !.recs = "ok"])
    /\ IF c.zones = "ok"
       THEN SearchSucceeds(c, c.zonesData) ELSE SearchWaits(c)
    /\ SearchFrame

SearchRecsReject(c, failure) ==
    /\ c \in SearchCalls /\ c.recs = "pending"
    /\ calls' = Answered(c, [c EXCEPT !.recs = "failed"])
    /\ IF c.zones # "failed"
       THEN SearchFails(c, failure, RecommendationsDefaultMessage)
       ELSE SearchWaits(c)
    /\ SearchFrame

\* the tab bar is rendered once there is something to show (line 156)
TabsVisible == Len(darkSkyZones) > 0 \/ Len(recommendations) > 0
ZonesTabShown == TabsVisible /\ activeTab = "zones" /\ Len(darkSkyZones) > 0
RecommendationsTabShown ==
    TabsVisible /\ activeTab = "recommendations" /\ Len(recommendations) > 0

\* the tab buttons, and "View All Zones"
SetActiveTab(tab) ==
    /\ TabsVisible
    /\ tab # activeTab
    /\ activeTab' = tab
    /\ lastEvent' = [handler |-> "setActiveTab"]
    /\ issued' = {}
    /\ UNCHANGED <<appData, sortBy, displayLimit, loadingMore, animationKey,
                   previousDisplayLimit, loadMoreTimers, appRecs, net, form,
                   cards, resolved>>

\* the sort select's onChange (lines 199-204)
SortChangeClearsSelection(newSort) ==
    /\ ZonesTabShown
    /\ newSort # sortBy
    /\ sortBy' = newSort
    /\ displayLimit' = InitialDisplayLimit
    /\ previousDisplayLimit' = 0
    /\ animationKey' = "sort"
    /\ selectedZoneForRecommendations' = NoZone
    /\ lastEvent' = [handler |-> "sortChange", displayLimitBefore |-> displayLimit]
    /\ issued' = {}
    /\ UNCHANGED <<appData, activeTab, loadingMore, loadMoreTimers,
                   loadingRecommendations, recommendationDays, loading,
                   net, form, cards, resolved>>

SortChangeKeepsLimit(newSort) ==
    /\ ZonesTabShown
    /\ newSort # sortBy
    /\ sortBy' = newSort
    /\ previousDisplayLimit' = 0
    /\ animationKey' = "sort"
    /\ lastEvent' = [handler |-> "sortChange", displayLimitBefore |-> displayLimit]
    /\ issued' = {}
    /\ UNCHANGED <<appData, activeTab, displayLimit, loadingMore, loadMoreTimers,
                   appRecs, net, form, cards, resolved>>

SortChange(newSort) ==
    /\ ZonesTabShown
    /\ newSort # sortBy
    /\ sortBy' = newSort
    /\ displayLimit' = InitialDisplayLimit
    /\ previousDisplayLimit' = 0
    /\ animationKey' = "sort"
    /\ lastEvent' = [handler |-> "sortChange", displayLimitBefore |-> displayLimit]
    /\ issued' = {}
    /\ UNCHANGED <<appData, activeTab, loadingMore, loadMoreTimers, appRecs,
                   net, form, cards, resolved>>

HandleLoadMoreWhileLoading ==
    /\ ZonesTabShown
    /\ displayLimit < Len(darkSkyZones)
    /\ loadMoreTimers < 2
    /\ loadingMore' = TRUE
    /\ previousDisplayLimit' = displayLimit
    /\ loadMoreTimers' = loadMoreTimers + 1
    /\ lastEvent' = [handler |-> "handleLoadMore"]
    /\ issued' = {}
    /\ UNCHANGED <<appData, activeTab, sortBy, displayLimit, animationKey,
                   appRecs, net, form, cards, resolved>>

\* handleLoadMore (lines 82-90), behind the Show More button (lines 242-246)
HandleLoadMore ==
    /\ ZonesTabShown
    /\ displayLimit < Len(darkSkyZones)
    /\ ~loadingMore
    /\ loadingMore' = TRUE
    /\ previousDisplayLimit' = displayLimit
    /\ loadMoreTimers' = loadMoreTimers + 1
    /\ lastEvent' = [handler |-> "handleLoadMore"]
    /\ issued' = {}
    /\ UNCHANGED <<appData, activeTab, sortBy, displayLimit, animationKey,
                   appRecs, net, form, cards, resolved>>

\* the timer of handleLoadMore fires (lines 86-89)
LoadMoreTimerFires ==
    /\ loadMoreTimers > 0
    /\ displayLimit' = displayLimit + LoadMoreStep
    /\ loadingMore' = FALSE
    /\ loadMoreTimers' = loadMoreTimers - 1
    /\ lastEvent' = [handler |-> "loadMoreTimer"]
    /\ issued' = {}
    /\ UNCHANGED <<appData, activeTab, sortBy, animationKey,
                   previousDisplayLimit, appRecs, net, form, cards, resolved>>

RecommendationCalls == { c \in calls : c.kind \in {"zone", "days"} }

\* handleZoneSelectionForRecommendations(zoneName), up to its await
\* (lines 92-99), from the View Stargazing Times button of a displayed card
HandleZoneSelectionForRecommendations(zoneName) ==
    /\ ZonesTabShown
    /\ \E i \in DOMAIN sortedDarkSkyZones : sortedDarkSkyZones[i].name = zoneName
    /\ ~loadingRecommendations
    /\ nextId <= MaxCalls
    /\ IF ~location.set
       THEN /\ lastEvent' = [handler |-> "handleZoneSelection", id |-> 0]
            /\ issued' = {}
            /\ UNCHANGED <<selectedZoneForRecommendations,
                           loadingRecommendations, net>>
       ELSE /\ selectedZoneForRecommendations' = zoneName
            /\ loadingRecommendations' = TRUE
            /\ calls' = calls \cup
                   { [id |-> nextId, kind |-> "zone", location |-> location,
                      zone_name |-> zoneName, days |-> recommendationDays,
                      phase |-> "sent", zones |-> "none", zonesData |-> << >>,
                      recs |-> "pending"] }
            /\ nextId' = nextId + 1
            /\ issued' = { getStargazingRecommendations(
                               location, zoneName, recommendationDays) }
            /\ lastEvent' = [handler |-> "handleZoneSelection", id |-> nextId,
                             selectedBefore |-> selectedZoneForRecommendations]
    /\ UNCHANGED <<appData, appView, recommendationDays, loading, form, cards,
                   resolved>>

\* the days selector's onChange up to its first await (lines 282-290)
DaysChange(newDays) ==
    /\ RecommendationsTabShown
    /\ newDays # recommendationDays
    /\ nextId <= MaxCalls
    /\ recommendationDays' = newDays
    /\ IF location.set
       THEN /\ loadingRecommendations' = TRUE
            /\ calls' = calls \cup
                   { [id |-> nextId, kind |-> "days", location |-> location,
                      zone_name |-> selectedZoneForRecommendations,
                      days |-> newDays, phase |-> "delay", zones |-> "none",
                      zonesData |-> << >>, recs |-> "pending"] }
            /\ nextId' = nextId + 1
            /\ lastEvent' = [handler |-> "daysChange", id |-> nextId]
       ELSE /\ lastEvent' = [handler |-> "daysChange", id |-> 0]
            /\ UNCHANGED <<loadingRecommendations, net>>
    /\ issued' = {}
    /\ UNCHANGED <<appData, appView, selectedZoneForRecommendations, loading,
                   form, cards, resolved>>

\* the 150 ms delay is over: the request goes out with the location, zone and
\* days the handler was started with (lines 292-297)
DaysDelayElapses(c) ==
    /\ c \in RecommendationCalls /\ c.phase = "delay"
    /\ calls' = (calls \ {c}) \cup { [c EXCEPT !.phase = "sent"] }
    /\ issued' = { getStargazingRecommendations(c.location, c.zone_name, c.days) }
    /\ lastEvent' = [handler |-> "daysRequest", id |-> c.id]
    /\ UNCHANGED <<appData, appView, appRecs, nextId, form, cards, resolved>>

\* the awaited getStargazingRecommendations resolves: lines 100-101 and
\* 105, or lines 298 and 302
RecommendationsResolve(c) ==
    /\ c \in RecommendationCalls /\ c.phase = "sent"
    /\ calls' = calls \ {c}
    /\ recommendations' = recommendationsData(c)
    /\ activeTab' = IF c.kind = "zone" THEN "recommendations" ELSE activeTab
    /\ loadingRecommendations' = FALSE
    /\ resolved' = Append(resolved, c.id)
    /\ issued' = {}
    /\ lastEvent' = [handler |-> "recommendationsResolved", id |-> c.id]
    /\ UNCHANGED <<location, userCurrentLocation, darkSkyZones, error, sortBy,
                   displayLimit, loadingMore, animationKey,
                   previousDisplayLimit, loadMoreTimers,
                   selectedZoneForRecommendations, recommendationDays, loading,
                   nextId, form, cards>>

\* a variant that sends the rejected request again
RecommendationsRejectRetries(c, failure) ==
    /\ c \in RecommendationCalls /\ c.phase = "sent"
    /\ calls' = calls
    /\ error' = handleApiError(failure, RecommendationsDefaultMessage)
    /\ loadingRecommendations' = TRUE
    /\ issued' = { getStargazingRecommendations(c.location, c.zone_name, c.days) }
    /\ lastEvent' = [handler |-> "recommendationsRejected", id |-> c.id,
                     failure |-> failure,
                     defaultMessage |-> RecommendationsDefaultMessage]
    /\ UNCHANGED <<location, userCurrentLocation, darkSkyZones,
                   recommendations, appView, selectedZoneForRecommendations,
                   recommendationDays, loading, nextId, form, cards, resolved>>

\* it rejects: lines 103 and 105, or lines 300 and 302
RecommendationsReject(c, failure) ==
    /\ c \in RecommendationCalls /\ c.phase = "sent"
    /\ calls' = calls \ {c}
    /\ error' = handleApiError(failure, RecommendationsDefaultMessage)
    /\ loadingRecommendations' = FALSE
    /\ issued' = {}
    /\ lastEvent' = [handler |-> "recommendationsRejected", id |-> c.id,
                     failure |-> failure,
                     defaultMessage |-> RecommendationsDefaultMessage]
    /\ UNCHANGED <<location, userCurrentLocation, darkSkyZones,
                   recommendations, appView, selectedZoneForRecommendations,
                   recommendationDays, loading, nextId, form, cards, resolved>>

-----------------------------------------------------------------------------
(* LocationInput: the handlers (part_001)                                   *)

\* f < 10^width, printed in exactly width digits
RECURSIVE PadDigits(_, _)
PadDigits(f, width) ==
    IF width = 0 THEN << >>
    ELSE << DigitChars[(f \div Pow10(width - 1)) + 1] >>
         \o PadDigits(f % Pow10(width - 1), width - 1)

\* Number.prototype.toFixed(digits), for digits >= FracDigits
toFixed(v, digits) ==
    LET m == IF v < 0 THEN 0 - v ELSE v
    IN  (IF v < 0 THEN << "-" >> ELSE << >>)
        \o NatToString(m \div Unit) \o << "." >>
        \o PadDigits((m % Unit) * Pow10(digits - FracDigits), digits)

NameDigits == 4

\* `${lat.toFixed(4)}, ${lng.toFixed(4)}`
CoordinatesName(lat, lng) ==
    [kind |-> "coordinates",
     text |-> toFixed(lat, NameDigits) \o << ",", " " >> \o toFixed(lng, NameDigits)]

\* what Nominatim answers for a zipcode it knows: result.lat, result.lon and
\* result.display_name
GeocodedLocation(zip) ==
    Location(parseFloat(<< "3", "4", ".", "1" >>).value,
             parseFloat(<< "-", "1", "1", "8", ".", "4" >>).value,
             [kind |-> "display_name", text |-> zip])

\* what getCurrentLocation resolves with (api.ts lines 74-79)
DeviceLocation ==
    Location(parseFloat(<< "3", "7", ".", "8" >>).value,
             parseFloat(<< "-", "1", "2", "2", ".", "4" >>).value,
             [kind |-> "Current Location", text |-> << >>])

\* pendingLookup: nothing awaited yet, a promise pending (with the zipcode it
\* geocodes and the recommendationDays of the render that started it), or
\* the last promise and how it settled
NoLookup == [kind |-> "none"]
Settled(was, outcome) == [kind |-> "settled", was |-> was, outcome |-> outcome]

\* disabled={loading || gettingLocation || isGeocoding}
FormDisabled == loading \/ gettingLocation \/ isGeocoding

\* a variant of the submit button that is not disabled while a search, a
\* geocoding or a geolocation is in progress
SubmitEnabledWhileLoading ==
    ~(Trim(zipcode) = << >> /\ (latitude = << >> \/ longitude = << >>))

\* the submit button (line 233); a disabled submit button also blocks
\* submitting the form with the Enter key
SubmitEnabled ==
    /\ ~FormDisabled
    /\ ~(Trim(zipcode) = << >> /\ (latitude = << >> \/ longitude = << >>))

FormFrame ==
    UNCHANGED <<appData, appView, appRecs, net, cards, resolved>>

\* the zipcode input's onChange (line 141)
SetZipcode(v) ==
    /\ ~FormDisabled
    /\ v # zipcode
    /\ zipcode' = v
    /\ lastEvent' = [handler |-> "setZipcode"]
    /\ issued' = {}
    /\ FormFrame
    /\ UNCHANGED <<latitude, longitude, formError, gettingLocation,
                   isGeocoding, showManualInput, pendingLookup>>

\* e.target.value of an <input type="number"> (lines 173 and 192): the text
\* typed when it is a valid floating-point number (an optional "-", digits,
\* and optionally a point followed by digits), the empty string otherwise
NumberInputValue(typed) ==
    LET body     == IF typed # << >> /\ Head(typed) = "-" THEN Tail(typed) ELSE typed
        nInt     == DigitPrefixLen(body)
        afterInt == SubSeq(body, nInt + 1, Len(body))
        valid    == IF afterInt = << >> THEN nInt > 0
                    ELSE /\ Head(afterInt) = "."
                         /\ Tail(afterInt) # << >>
                         /\ DigitPrefixLen(Tail(afterInt)) = Len(Tail(afterInt))
    IN  IF valid THEN typed ELSE << >>

\* the latitude input's onChange (lines 176-180)
SetLatitude(typed) ==
    /\ showManualInput /\ ~FormDisabled
    /\ NumberInputValue(typed) # latitude
    /\ latitude' = NumberInputValue(typed)
    /\ zipcode' = IF NumberInputValue(typed) # << >> THEN << >> ELSE zipcode
    /\ lastEvent' = [handler |-> "setLatitude"]
    /\ issued' = {}
    /\ FormFrame
    /\ UNCHANGED <<longitude, formError, gettingLocation, isGeocoding,
                   showManualInput, pendingLookup>>

\* the longitude input's onChange (lines 195-199)
SetLongitude(typed) ==
    /\ showManualInput /\ ~FormDisabled
    /\ NumberInputValue(typed) # longitude
    /\ longitude' = NumberInputValue(typed)
    /\ zipcode' = IF NumberInputValue(typed) # << >> THEN << >> ELSE zipcode
    /\ lastEvent' = [handler |-> "setLongitude"]
    /\ issued' = {}
    /\ FormFrame
    /\ UNCHANGED <<latitude, formError, gettingLocation, isGeocoding,
                   showManualInput, pendingLookup>>

\* the manual-coordinates toggle (line 158)
ToggleManualInput ==
    /\ showManualInput' = ~showManualInput
    /\ lastEvent' = [handler |-> "toggleManualInput"]
    /\ issued' = {}
    /\ FormFrame
    /\ UNCHANGED <<zipcode, latitude, longitude, formError, gettingLocation,
                   isGeocoding, pendingLookup>>

ZipcodeMessage == "Please enter a valid US zipcode (e.g., 12345 or 12345-6789)"
NotFoundMessage ==
    "Could not find coordinates for this zipcode. Please try a different zipcode or use manual coordinates."

\* handleSubmit returns after setError(message), having called nothing
SubmitRejected(path, message) ==
    /\ formError' = message
    /\ lastEvent' = [handler |-> "handleSubmit", path |-> path,
                     outcome |-> "rejected"]
    /\ issued' = {}
    /\ FormFrame
    /\ UNCHANGED <<zipcode, latitude, longitude, gettingLocation, isGeocoding,
                   showManualInput, pendingLookup>>

\* geocodeZipcode's fetch (lines 23-25)
GeocodeRequest(zip) ==
    [endpoint |-> "https://nominatim.openstreetmap.org/search", q |-> zip]

\* handleSubmit (lines 42-101), up to its return or its await
HandleSubmit ==
    /\ SubmitEnabled
    /\ IF latitude # << >> /\ longitude # << >>
       THEN LET lat == parseFloat(latitude)
                lng == parseFloat(longitude)
                message == validateCoordinates(lat, lng)
            IN  IF message # OkMessage
                THEN SubmitRejected("coordinates", message)
                ELSE /\ nextId <= MaxCalls
                     /\ formError' = ""
                     /\ handleLocationSubmit(
                            Location(lat.value, lng.value,
                                     CoordinatesName(lat.value, lng.value)),
                            FALSE, recommendationDays, "coordinates")
                     /\ UNCHANGED <<zipcode, latitude, longitude,
                                    gettingLocation, isGeocoding,
                                    showManualInput, pendingLookup>>
       ELSE IF Trim(zipcode) # << >>
       THEN IF ~zipcodeRegexTest(Trim(zipcode))
            THEN SubmitRejected("zipcode", ZipcodeMessage)
            ELSE /\ formError' = ""
                 /\ isGeocoding' = TRUE
                 /\ pendingLookup' = [kind |-> "geocode",
                                      zipcode |-> Trim(zipcode),
                                      days |-> recommendationDays]
                 /\ issued' = { GeocodeRequest(Trim(zipcode)) }
                 /\ lastEvent' = [handler |-> "handleSubmit",
                                  path |-> "zipcode", outcome |-> "geocoding"]
                 /\ FormFrame
                 /\ UNCHANGED <<zipcode, latitude, longitude, gettingLocation,
                                showManualInput>>
       ELSE SubmitRejected("empty", "Please enter a zipcode or coordinates")

GeocodeOutcomes == {"found", "empty", "error"}

\* geocodeZipcode settles (lines 26-39) and handleSubmit goes on (lines 84-97)
GeocodeSettlesAlwaysSubmits(outcome) ==
    /\ pendingLookup.kind = "geocode"
    /\ nextId <= MaxCalls
    /\ handleLocationSubmit(GeocodedLocation(pendingLookup.zipcode),
                            FALSE, pendingLookup.days, "zipcode")
    /\ isGeocoding' = FALSE
    /\ pendingLookup' = Settled("geocode", outcome)
    /\ UNCHANGED <<zipcode, latitude, longitude, formError, gettingLocation,
                   showManualInput>>

GeocodeSettles(outcome) ==
    /\ pendingLookup.kind = "geocode"
    /\ isGeocoding' = FALSE
    /\ pendingLookup' = Settled("geocode", outcome)
    /\ IF outcome = "found"
       THEN /\ nextId <= MaxCalls
            /\ handleLocationSubmit(GeocodedLocation(pendingLookup.zipcode),
                                    FALSE, pendingLookup.days, "zipcode")
            /\ UNCHANGED formError
       ELSE /\ formError' = NotFoundMessage
            /\ lastEvent' = [handler |-> "geocodeMiss", outcome |-> outcome]
            /\ issued' = {}
            /\ FormFrame
    /\ UNCHANGED <<zipcode, latitude, longitude, gettingLocation,
                   showManualInput>>

\* the call of getCurrentLocation (api.ts lines 66-91)
GeolocationRequest ==
    [endpoint |-> "getCurrentLocation"]

\* handleGetCurrentLocation (lines 103-108), up to its await
HandleGetCurrentLocation ==
    /\ ~FormDisabled
    /\ gettingLocation' = TRUE
    /\ formError' = ""
    /\ pendingLookup' = [kind |-> "geolocation", zipcode |-> << >>,
                         days |-> recommendationDays]
    /\ lastEvent' = [handler |-> "handleGetCurrentLocation"]
    /\ issued' = { GeolocationRequest }
    /\ FormFrame
    /\ UNCHANGED <<zipcode, latitude, longitude, isGeocoding, showManualInput>>

GeolocationOutcomes == {"position", "unsupported", "error"}

\* getCurrentLocation settles (api.ts lines 66-91) and
\* handleGetCurrentLocation goes on (lines 109-120)
GeolocationSettles(outcome) ==
    /\ pendingLookup.kind = "geolocation"
    /\ gettingLocation' = FALSE
    /\ pendingLookup' = Settled("geolocation", outcome)
    /\ IF outcome = "position"
       THEN /\ nextId <= MaxCalls
            /\ latitude' = NumberToString(DeviceLocation.latitude)
            /\ longitude' = NumberToString(DeviceLocation.longitude)
            /\ zipcode' = << >>
            /\ handleLocationSubmit(DeviceLocation, TRUE, pendingLookup.days,
                                    "geolocation")
            /\ UNCHANGED formError
       ELSE /\ formError' =
                   IF outcome = "unsupported"
                   THEN "Geolocation is not supported by this browser."
                   ELSE "Geolocation error: " \o "User denied Geolocation"
            /\ lastEvent' = [handler |-> "geolocationFailed"]
            /\ issued' = {}
            /\ FormFrame
            /\ UNCHANGED <<zipcode, latitude, longitude>>
    /\ UNCHANGED <<isGeocoding, showManualInput>>

-----------------------------------------------------------------------------
(* The specifications                                                       *)

-----------------------------------------------------------------------------
(* DarkSkyZoneCard (DarkSkyZoneCard.tsx lines 1-272)                        *)

MaxCollapses == 3

\* truncateDescription(description): of a description only its length
\* matters to needsTruncation (lines 35-38)
MaxDescriptionLength == 100
ShortDescription == 100
LongDescription == 101
truncateDescription(descriptionLength) ==
    [needsTruncation |-> ~(descriptionLength <= MaxDescriptionLength)]

\* the card as mounted (useState, lines 51-56), for a zone whose description
\* has the given length.  collapses counts the collapses so far, hintTimers
\* holds the collapses whose 300 ms timer is pending, oldest first (timers of
\* equal delay fire in the order they were set), and
\* descriptionToggledCollapsed remembers whether the description button was
\* ever pressed while the card was collapsed
NewZoneCard(descriptionLength) ==
    [descriptionLength |-> descriptionLength,
     isLoadingApple |-> FALSE, isLoadingGoogle |-> FALSE,
     isExpanded |-> FALSE, showHint |-> TRUE, hintKey |-> 0,
     isDescriptionExpanded |-> FALSE,
     collapses |-> 0, hintTimers |-> << >>,
     descriptionToggledCollapsed |-> FALSE]

\* the frame of a step of the card
ZoneCardFrame ==
    /\ issued' = {}
    /\ UNCHANGED <<appData, appView, appRecs, net, form, card, mapCard, resolved>>

HandleToggleExpansionKeepsDescription ==
    /\ zoneCard.isExpanded => zoneCard.collapses < MaxCollapses
    /\ zoneCard' =
         IF zoneCard.isExpanded
         THEN [zoneCard EXCEPT !.showHint = FALSE, !.isExpanded = FALSE,
                               !.collapses = @ + 1,
                               !.hintTimers = Append(@, zoneCard.collapses + 1)]
         ELSE [zoneCard EXCEPT !.showHint = FALSE, !.isExpanded = TRUE]
    /\ lastEvent' = [handler |-> "handleToggleExpansion",
                     wasExpanded |-> zoneCard.isExpanded,
                     descriptionWasExpanded |-> zoneCard.isDescriptionExpanded]
    /\ ZoneCardFrame

\* handleToggleExpansion (lines 83-99), the card's onClick (line 104)
HandleToggleExpansion ==
    /\ zoneCard.isExpanded => zoneCard.collapses < MaxCollapses
    /\ zoneCard' =
         IF zoneCard.isExpanded
         THEN [zoneCard EXCEPT !.showHint = FALSE, !.isExpanded = FALSE,
                               !.isDescriptionExpanded = FALSE,
                               !.collapses = @ + 1,
                               !.hintTimers = Append(@, zoneCard.collapses + 1)]
         ELSE [zoneCard EXCEPT !.showHint = FALSE, !.isExpanded = TRUE]
    /\ lastEvent' = [handler |-> "handleToggleExpansion",
                     wasExpanded |-> zoneCard.isExpanded,
                     descriptionWasExpanded |-> zoneCard.isDescriptionExpanded]
    /\ ZoneCardFrame

\* the timer set by a collapse fires (lines 90-93)
HintTimerFires ==
    /\ zoneCard.hintTimers # << >>
    /\ zoneCard' = [zoneCard EXCEPT !.showHint = TRUE, !.hintKey = @ + 1,
                                    !.hintTimers = Tail(@)]
    /\ lastEvent' = [handler |-> "hintTimer",
                     collapse |-> Head(zoneCard.hintTimers)]
    /\ ZoneCardFrame

\* the Read more / Show less button (lines 163-173).  It is rendered whenever
\* the description needs truncation; while the card is collapsed it is
\* clipped by the style sheet (index.css lines 84-88) but still in the page
ToggleDescription ==
    /\ truncateDescription(zoneCard.descriptionLength).needsTruncation
    /\ zoneCard' = [zoneCard EXCEPT
                       !.isDescriptionExpanded = ~@,
                       !.descriptionToggledCollapsed = @ \/ ~zoneCard.isExpanded]
    /\ lastEvent' = [handler |-> "toggleDescription",
                     wasExpanded |-> zoneCard.isExpanded]
    /\ ZoneCardFrame

\* a variant of the render that tests showHint only
HintDisplayedWheneverShown == zoneCard.showHint

\* the hint label is rendered (line 261)
HintDisplayed == ~zoneCard.isExpanded /\ zoneCard.showHint

-----------------------------------------------------------------------------
(* DarkSkyZoneCard, earlier version (DarkSkyZoneCard.tsx lines 274-618)     *)

MaxClicks == 3

MapTypes == {"apple", "google"}

\* the zone of the card and the position the browser reports
CardZone == [latitude |-> 365, longitude |-> -1169]
UserPosition == [latitude |-> 378, longitude |-> -1224]

\* the URLs handed to window.open (lines 341, 353, 376 and 393, 405, 428)
DestinationUrl(mapType, zone) ==
    [site |-> IF mapType = "apple" THEN "https://maps.apple.com/"
              ELSE "https://www.google.com/maps/place/",
     kind |-> "destination", daddr |-> zone]
RouteUrl(mapType, position, zone) ==
    [site |-> IF mapType = "apple" THEN "https://maps.apple.com/"
              ELSE "https://www.google.com/maps/dir/",
     kind |-> "route", saddr |-> position, daddr |-> zone]

\* how getUserLocation settles (lines 290-305): a position, or a
\* GeolocationPositionError with one of its three codes
GetUserLocationOutcomes ==
    {"position", "PERMISSION_DENIED", "POSITION_UNAVAILABLE", "TIMEOUT"}

\* the message of the catch clause's switch (lines 360-372 and 412-424)
LocationErrorMessage(code) ==
    CASE code = "PERMISSION_DENIED" ->
             "Location access denied. Opening destination only."
      [] code = "POSITION_UNAVAILABLE" ->
             "Location unavailable. Opening destination only."
      [] code = "TIMEOUT" ->
             "Location request timed out. Opening destination only."

\* the card as mounted (useState, lines 330-332): clicks counts the clicks on
\* its map buttons, pending holds the handlers awaiting getUserLocation,
\* opened the windows opened with the click that opened each, and
\* clearTimers the pending 3 s timers
NewMapCard ==
    [isLoadingApple |-> FALSE, isLoadingGoogle |-> FALSE, locationError |-> None,
     clicks |-> 0, pending |-> {}, opened |-> << >>, clearTimers |-> 0]

IsLoading(mapType) ==
    IF mapType = "apple" THEN mapCard.isLoadingApple ELSE mapCard.isLoadingGoogle

\* setIsLoadingApple(v) or setIsLoadingGoogle(v)
SetLoading(c, mapType, v) ==
    IF mapType = "apple" THEN [c EXCEPT !.isLoadingApple = v]
    ELSE [c EXCEPT !.isLoadingGoogle = v]

MapCardFrame ==
    /\ issued' = {}
    /\ UNCHANGED <<appData, appView, appRecs, net, form, card, zoneCard, resolved>>

\* handleOpenInAppleMaps / handleOpenInGoogleMaps up to the return of the
\* unsupported case or up to the await (lines 334-349 and 386-401);
\* geolocation tells whether navigator.geolocation is there
handleOpenInMaps(mapType, geolocation) ==
    /\ ~IsLoading(mapType)
    /\ mapCard.clicks < MaxClicks
    /\ LET id == mapCard.clicks + 1
           started == [mapCard EXCEPT !.clicks = id, !.locationError = None]
       IN  IF ~geolocation
           THEN /\ mapCard' = [SetLoading(started, mapType, FALSE) EXCEPT
                                  !.opened = Append(@, [click |-> id,
                                      url |-> DestinationUrl(mapType, CardZone)])]
                /\ lastEvent' = [handler |-> "mapHandlerEnds", id |-> id,
                                 mapType |-> mapType, outcome |-> "unsupported"]
           ELSE /\ mapCard' = [SetLoading(started, mapType, TRUE) EXCEPT
                                  !.pending = @ \cup
                                      {[id |-> id, mapType |-> mapType,
                                        locationError |-> mapCard.locationError]}]
                /\ lastEvent' = [handler |-> "handleOpenInMaps", id |-> id,
                                 mapType |-> mapType]
    /\ MapCardFrame

HandleOpenInAppleMaps(geolocation) == handleOpenInMaps("apple", geolocation)
HandleOpenInGoogleMaps(geolocation) == handleOpenInMaps("google", geolocation)

GetUserLocationSettlesNoFallback(p, outcome) ==
    /\ p \in mapCard.pending
    /\ LET done == [SetLoading(mapCard, p.mapType, FALSE) EXCEPT
                       !.pending = @ \ {p},
                       !.clearTimers = IF p.locationError # None THEN @ + 1 ELSE @]
       IN  mapCard' =
             IF outcome = "position"
             THEN [done EXCEPT !.opened = Append(@, [click |-> p.id,
                       url |-> RouteUrl(p.mapType, UserPosition, CardZone)])]
             ELSE [done EXCEPT !.locationError = LocationErrorMessage(outcome)]
    /\ lastEvent' = [handler |-> "mapHandlerEnds", id |-> p.id,
                     mapType |-> p.mapType, outcome |-> outcome]
    /\ MapCardFrame

\* getUserLocation settles and the handler runs to its end (lines 350-383
\* and 402-435); the last lines read the locationError of the render the
\* handler was started in
GetUserLocationSettles(p, outcome) ==
    /\ p \in mapCard.pending
    /\ LET done == [SetLoading(mapCard, p.mapType, FALSE) EXCEPT
                       !.pending = @ \ {p},
                       !.clearTimers = IF p.locationError # None THEN @ + 1 ELSE @]
       IN  mapCard' =
             IF outcome = "position"
             THEN [done EXCEPT !.opened = Append(@, [click |-> p.id,
                       url |-> RouteUrl(p.mapType, UserPosition, CardZone)])]
             ELSE [done EXCEPT !.locationError = LocationErrorMessage(outcome),
                               !.opened = Append(@, [click |-> p.id,
                       url |-> DestinationUrl(p.mapType, CardZone)])]
    /\ lastEvent' = [handler |-> "mapHandlerEnds", id |-> p.id,
                     mapType |-> p.mapType, outcome |-> outcome]
    /\ MapCardFrame

\* the 3 s timer fires: setLocationError(null) (lines 382 and 434)
ClearErrorTimerFires ==
    /\ mapCard.clearTimers > 0
    /\ mapCard' = [mapCard EXCEPT !.clearTimers = @ - 1, !.locationError = None]
    /\ lastEvent' = [handler |-> "clearErrorTimer"]
    /\ MapCardFrame

\* the state after the components are constructed
Init ==
    /\ location = NoLocation
    /\ userCurrentLocation = NoLocation
    /\ darkSkyZones = << >>
    /\ recommendations = << >>
    /\ loading = FALSE
    /\ error = None
    /\ activeTab = "zones"
    /\ sortBy = "distance"
    /\ displayLimit = InitialDisplayLimit
    /\ loadingMore = FALSE
    /\ animationKey = "initial"
    /\ previousDisplayLimit = InitialDisplayLimit
    /\ selectedZoneForRecommendations = NoZone
    /\ loadingRecommendations = FALSE
    /\ recommendationDays = InitialDays
    /\ calls = {}
    /\ nextId = 1
    /\ loadMoreTimers = 0
    /\ zipcode = << >>
    /\ latitude = << >>
    /\ longitude = << >>
    /\ formError = ""
    /\ gettingLocation = FALSE
    /\ isGeocoding = FALSE
    /\ showManualInput = FALSE
    /\ pendingLookup = NoLookup
    /\ card = NoCard
    /\ zoneCard = NewZoneCard(LongDescription)
    /\ mapCard = NewMapCard
    /\ lastEvent = [handler |-> "init"]
    /\ issued = {}
    /\ resolved = << >>

\* the texts typed into the form
ValidZipcode == << "9", "0", "2", "1", "0" >>
ZipcodeInputs ==
    { << >>,
      ValidZipcode,
      << " ", "9", "0", "2", "1", "0" >>,
      << "9", "0", "2", "1", "0", "-", "1", "2", "3", "4" >>,
      << "9", "0", "2", "1", "0", "1" >>,
      << "9", "0", "2", "1", "a" >> }
LatitudeInputs ==
    { << >>,
      << "-", "9", "0" >>,
      << "9", "0", ".", "1" >>,
      << "-", "9", "1" >>,
      << "a" >> }
LongitudeInputs ==
    { << >>,
      << "1", "8", "0" >>,
      << "1", "8", "0", ".", "1" >>,
      << "-", "1", "8", "1" >>,
      << "-" >> }

\* the zone lists the backend answers a search with: none, a few, more than
\* the initial display limit and more than two pages, none in sorted order
ManyZones == 11
ZoneAnswer(n) == [i \in 1..n |-> Zone(n + 1 - i)]
FewZones == ZoneAnswer(2)
SearchAnswers == { ZoneAnswer(0), FewZones, ZoneAnswer(MaxZones), ZoneAnswer(ManyZones) }

\* the failure and the day windows tried where the state space is large
GenericFailure == ApiFailure(500, FALSE, 0, FALSE, "")
DaysTried == {7, 14}
\* the View Stargazing Times buttons tried: those of the first cards
MaxSelectable == 2
ZonesTried ==
    { sortedDarkSkyZones[i].name :
        i \in 1..Min(MaxSelectable, Len(sortedDarkSkyZones)) }

\* a location search settling
SearchResponses(answers, failures) ==
    \/ \E c \in calls, z \in answers : SearchZonesResolve(c, z)
    \/ \E c \in calls, f \in failures : SearchZonesReject(c, f)
    \/ \E c \in calls : SearchRecsResolve(c)
    \/ \E c \in calls, f \in failures : SearchRecsReject(c, f)

\* a zone-scoped or day-window fetch going on and settling
RecommendationResponses(failures) ==
    \/ \E c \in calls : DaysDelayElapses(c)
    \/ \E c \in calls : RecommendationsResolve(c)
    \/ \E c \in calls, f \in failures : RecommendationsReject(c, f)

\* Spec: the fetches of the App, started from a LocationInput that is given
\* one zipcode or the device's position
Next ==
    \/ SetZipcode(ValidZipcode)
    \/ HandleSubmit
    \/ \E o \in GeocodeOutcomes : GeocodeSettles(o)
    \/ HandleGetCurrentLocation
    \/ \E o \in GeolocationOutcomes : GeolocationSettles(o)
    \/ \E t \in {"zones", "recommendations"} : SetActiveTab(t)
    \/ \E z \in ZonesTried : HandleZoneSelectionForRecommendations(z)
    \/ \E d \in DaysTried : DaysChange(d)
    \/ SearchResponses({FewZones}, {GenericFailure})
    \/ RecommendationResponses({GenericFailure})

Spec == Init /\ [][Next]_vars

\* SpecView: the zone list view of the App, searched from the device's position
NextView ==
    \/ HandleGetCurrentLocation
    \/ \E o \in GeolocationOutcomes : GeolocationSettles(o)
    \/ HandleSubmit
    \/ \E t \in {"zones", "recommendations"} : SetActiveTab(t)
    \/ \E s \in SortOptions : SortChange(s)
    \/ HandleLoadMore
    \/ LoadMoreTimerFires
    \/ SearchResponses(SearchAnswers, {GenericFailure})

SpecView == Init /\ [][NextView]_vars

\* SpecForm: the LocationInput form with every text, over an App that searches
NextForm ==
    \/ \E v \in ZipcodeInputs : SetZipcode(v)
    \/ \E v \in LatitudeInputs : SetLatitude(v)
    \/ \E v \in LongitudeInputs : SetLongitude(v)
    \/ ToggleManualInput
    \/ HandleSubmit
    \/ \E o \in GeocodeOutcomes : GeocodeSettles(o)
    \/ HandleGetCurrentLocation
    \/ \E o \in GeolocationOutcomes : GeolocationSettles(o)
    \/ \E c \in calls : SearchZonesResolve(c, FewZones)
    \/ \E c \in calls : SearchRecsResolve(c)

SpecForm == Init /\ [][NextForm]_vars

\* SpecScore: RecommendationCard rendered for every pair of scores
NextScore == ~card.rendered /\ \E c \in Conditions : RenderRecommendationCard(c)

SpecScore == Init /\ [][NextScore]_vars

\* SpecBest: the recommendation list rendered for every backend answer
NextBest ==
    ~card.rendered /\ \E list \in RecommendationLists : RenderRecommendations(list)

SpecBest == Init /\ [][NextBest]_vars

\* SpecSort: the view over every zone list a search can have fetched
InitSort ==
    /\ darkSkyZones \in ZoneLists
    /\ location = DeviceLocation
    /\ userCurrentLocation = DeviceLocation
    /\ recommendations = RecommendationsResponse(1, InitialDays)
    /\ loading = FALSE
    /\ error = None
    /\ activeTab = "zones"
    /\ sortBy = "distance"
    /\ displayLimit = InitialDisplayLimit
    /\ loadingMore = FALSE
    /\ animationKey = "search"
    /\ previousDisplayLimit = 0
    /\ selectedZoneForRecommendations = NoZone
    /\ loadingRecommendations = FALSE
    /\ recommendationDays = InitialDays
    /\ calls = {}
    /\ nextId = 2
    /\ loadMoreTimers = 0
    /\ zipcode = << >>
    /\ latitude = NumberToString(DeviceLocation.latitude)
    /\ longitude = NumberToString(DeviceLocation.longitude)
    /\ formError = ""
    /\ gettingLocation = FALSE
    /\ isGeocoding = FALSE
    /\ showManualInput = FALSE
    /\ pendingLookup = NoLookup
    /\ card = NoCard
    /\ zoneCard = NewZoneCard(LongDescription)
    /\ mapCard = NewMapCard
    /\ lastEvent = [handler |-> "searchResolved", id |-> 1]
    /\ issued = {}
    /\ resolved = << 1 >>

NextSort ==
    \/ \E s \in SortOptions : SortChange(s)
    \/ HandleLoadMore
    \/ LoadMoreTimerFires

SpecSort == InitSort /\ [][NextSort]_vars

\* SpecBrowse: one search from the device's position, then browsing its zones
\* (sorting, showing more) and the stargazing times of a zone
NextBrowse ==
    \/ HandleGetCurrentLocation
    \/ \E o \in GeolocationOutcomes : GeolocationSettles(o)
    \/ \E c \in calls : SearchZonesResolve(c, ZoneAnswer(MaxZones))
    \/ \E c \in calls : SearchRecsResolve(c)
    \/ \E t \in {"zones", "recommendations"} : SetActiveTab(t)
    \/ \E s \in SortOptions : SortChange(s)
    \/ HandleLoadMore
    \/ LoadMoreTimerFires
    \/ \E z \in ZonesTried : HandleZoneSelectionForRecommendations(z)
    \/ \E c \in calls : RecommendationsResolve(c)

SpecBrowse == Init /\ [][NextBrowse]_vars

\* SpecCard: one zone card, with a short or a long description, toggled
InitCard ==
    /\ location = NoLocation
    /\ userCurrentLocation = NoLocation
    /\ darkSkyZones = << >>
    /\ recommendations = << >>
    /\ loading = FALSE
    /\ error = None
    /\ activeTab = "zones"
    /\ sortBy = "distance"
    /\ displayLimit = InitialDisplayLimit
    /\ loadingMore = FALSE
    /\ animationKey = "initial"
    /\ previousDisplayLimit = InitialDisplayLimit
    /\ selectedZoneForRecommendations = NoZone
    /\ loadingRecommendations = FALSE
    /\ recommendationDays = InitialDays
    /\ calls = {}
    /\ nextId = 1
    /\ loadMoreTimers = 0
    /\ zipcode = << >>
    /\ latitude = << >>
    /\ longitude = << >>
    /\ formError = ""
    /\ gettingLocation = FALSE
    /\ isGeocoding = FALSE
    /\ showManualInput = FALSE
    /\ pendingLookup = NoLookup
    /\ card = NoCard
    /\ zoneCard \in {NewZoneCard(ShortDescription), NewZoneCard(LongDescription)}
    /\ mapCard = NewMapCard
    /\ lastEvent = [handler |-> "init"]
    /\ issued = {}
    /\ resolved = << >>

NextCard ==
    \/ HandleToggleExpansion
    \/ HintTimerFires
    \/ ToggleDescription

SpecCard == InitCard /\ [][NextCard]_vars

\* the latitude and longitude of the userCurrentLocation prop, as the route
\* URL shows them (DarkSkyZoneCard.tsx lines 65-66)
StoredPosition ==
    [latitude |-> userCurrentLocation.latitude,
     longitude |-> userCurrentLocation.longitude]

\* a variant of handleMapAction without the return of line 69
HandleMapActionFallsThrough(mapType) ==
    /\ ZonesTabShown
    /\ zoneCard' = IF mapType = "apple"
                   THEN [zoneCard EXCEPT !.isLoadingApple = FALSE]
                   ELSE [zoneCard EXCEPT !.isLoadingGoogle = FALSE]
    /\ lastEvent' =
           [handler |-> "handleMapAction", mapType |-> mapType,
            opened |->
                IF userCurrentLocation.set
                THEN << RouteUrl(mapType, StoredPosition, CardZone),
                        DestinationUrl(mapType, CardZone) >>
                ELSE << DestinationUrl(mapType, CardZone) >>]
    /\ ZoneCardFrame

\* handleMapAction(mapType) (DarkSkyZoneCard.tsx lines 58-78), behind the two
\* map buttons of a card of the zone list; it runs to its end without
\* awaiting, so the flag it sets at line 60 is false again when it returns
HandleMapAction(mapType) ==
    /\ ZonesTabShown
    /\ zoneCard' = IF mapType = "apple"
                   THEN [zoneCard EXCEPT !.isLoadingApple = FALSE]
                   ELSE [zoneCard EXCEPT !.isLoadingGoogle = FALSE]
    /\ lastEvent' =
           [handler |-> "handleMapAction", mapType |-> mapType,
            opened |->
                IF userCurrentLocation.set
                THEN << RouteUrl(mapType, StoredPosition, CardZone) >>
                ELSE << DestinationUrl(mapType, CardZone) >>]
    /\ ZoneCardFrame

\* SpecRoute: searches from the three paths of the form, and the map buttons
\* of a listed card
NextRoute ==
    \/ SetZipcode(ValidZipcode)
    \/ HandleSubmit
    \/ \E o \in GeocodeOutcomes : GeocodeSettles(o)
    \/ HandleGetCurrentLocation
    \/ \E o \in GeolocationOutcomes : GeolocationSettles(o)
    \/ \E c \in calls : SearchZonesResolve(c, FewZones)
    \/ \E c \in calls : SearchRecsResolve(c)
    \/ \E m \in MapTypes : HandleMapAction(m)

SpecRoute == Init /\ [][NextRoute]_vars

\* SpecMapCard: the map buttons of one card of the earlier version
NextMapCard ==
    \/ \E g \in BOOLEAN : HandleOpenInAppleMaps(g)
    \/ \E g \in BOOLEAN : HandleOpenInGoogleMaps(g)
    \/ \E p \in mapCard.pending, o \in GetUserLocationOutcomes :
           GetUserLocationSettles(p, o)
    \/ ClearErrorTimerFires

SpecMapCard == Init /\ [][NextMapCard]_vars

\* SpecErrors: searches and zone selections whose backend calls fail in
\* every way
NextErrors ==
    \/ HandleGetCurrentLocation
    \/ \E o \in GeolocationOutcomes : GeolocationSettles(o)
    \/ \E c \in calls : SearchZonesResolve(c, FewZones)
    \/ \E c \in calls : SearchRecsResolve(c)
    \/ \E c \in calls, f \in ApiFailures : SearchZonesReject(c, f)
    \/ \E c \in calls, f \in ApiFailures : SearchRecsReject(c, f)
    \/ \E z \in ZonesTried : HandleZoneSelectionForRecommendations(z)
    \/ \E c \in calls : RecommendationsResolve(c)
    \/ \E c \in calls, f \in ApiFailures : RecommendationsReject(c, f)

SpecErrors == Init /\ [][NextErrors]_vars

-----------------------------------------------------------------------------
(* The claims                                                               *)

\* C1: for all integer scores A and W in 0..100 supplied with weather data
\* present, the combined score of the card is round(A*0.6 + W*0.4), that is
\* floor((6*A + 4*W + 5) / 10).
C1_CombinedScoreWithWeather ==
    (card.rendered /\ card.conditions.weather.present) =>
        LET A == card.conditions.visibility_score
            W == card.conditions.weather.weather_score
        IN  card.combinedScore = (6 * A + 4 * W + 5) \div 10

\* C2: when the conditions carry no weather data, the combined score of the
\* card is round(A*0.6 + 20): the integer c with c - 1/2 <= A*0.6 + 20 < c + 1/2.
C2_CombinedScoreWithoutWeather ==
    (card.rendered /\ ~card.conditions.weather.present) =>
        LET A == card.conditions.visibility_score
            c == card.combinedScore
        IN  /\ 10 * c - 5 <= 6 * A + 200
            /\ 6 * A + 200 < 10 * c + 5

\* a card without weather data whose astronomy score of 90 gives 74
C2_Witness ==
    /\ card.rendered
    /\ ~card.conditions.weather.present
    /\ card.astronomyScore = 90
    /\ card.combinedScore = 74

\* the key a sort option ranks a zone by
SortKey(z, by) ==
    CASE by = "distance" -> z.distance_miles
      [] by = "bortle"   -> z.bortle_scale
      [] by = "name"     -> z.name

\* the index of a zone in the fetched list
FetchedAt(z) == CHOOSE p \in 1..Len(darkSkyZones) : darkSkyZones[p] = z

\* zone a ranks before zone b: a smaller key, or the same key and fetched earlier
RanksBefore(a, b) ==
    \/ SortKey(a, sortBy) < SortKey(b, sortBy)
    \/ /\ SortKey(a, sortBy) = SortKey(b, sortBy)
       /\ FetchedAt(a) < FetchedAt(b)

\* C4: for every zone list and every sort key, the displayed zones are the
\* first min(displayLimit, n) zones of the stable ascending sort of the fetched
\* list by that key: every displayed zone is a fetched zone, none is shown
\* twice, they are in ascending key order with equal keys in fetched order,
\* and every fetched zone that is not displayed ranks after every displayed one.
C4_DisplayedZonesAreSortedPrefix ==
    LET shown == sortedDarkSkyZones
        n     == Len(darkSkyZones)
        Fetched == {darkSkyZones[p] : p \in 1..n}
        Shown   == {shown[i] : i \in 1..Len(shown)}
    IN  /\ Len(shown) = (IF displayLimit < n THEN displayLimit ELSE n)
        /\ Shown \subseteq Fetched
        /\ Cardinality(Shown) = Len(shown)
        /\ \A i, j \in 1..Len(shown) : i < j => RanksBefore(shown[i], shown[j])
        /\ \A z \in Fetched \ Shown : \A i \in 1..Len(shown) : RanksBefore(shown[i], z)

\* six zones fetched in descending name order, re-sorted by Bortle scale with
\* room for five: ties keep the fetched order and the sixth zone is cut
C4_Witness ==
    /\ lastEvent.handler = "sortChange"
    /\ sortBy = "bortle"
    /\ displayLimit = 5
    /\ darkSkyZones = << Zone(6), Zone(5), Zone(4), Zone(3), Zone(2), Zone(1) >>
    /\ sortedDarkSkyZones = << Zone(6), Zone(3), Zone(4), Zone(1), Zone(5) >>

\* C10: changing the sort key sets the display limit to 5, whatever it was
\* before.
C10_SortChangeResetsDisplayLimit ==
    lastEvent.handler = "sortChange" => displayLimit = 5

\* a sort change that found ten zones displayed
C10_Witness ==
    /\ lastEvent.handler = "sortChange"
    /\ lastEvent.displayLimitBefore = 10
    /\ displayLimit = 5

\* the fetch every element of a recommendation list came from, 0 when the
\* list is empty or mixes fetches
FetchOf(list) ==
    IF list # << >> /\ \A i \in 1..Len(list) : list[i].fetch = list[1].fetch
    THEN list[1].fetch
    ELSE 0

\* C3: nothing sequences one recommendation fetch against another, so when
\* fetches overlap the list shown once they have resolved is the response of
\* the fetch that resolved last (resolved lists the fetches in the order
\* their handlers' awaits completed successfully), also when that fetch is
\* the one that was requested earlier.
C3_LastResolvedWins ==
    resolved # << >> => FetchOf(recommendations) = resolved[Len(resolved)]

\* two overlapping fetches have both resolved, the one requested first
\* resolving last, and its response is the one shown
C3_Witness ==
    /\ calls = {}
    /\ Len(resolved) >= 2
    /\ resolved[Len(resolved)] < resolved[Len(resolved) - 1]
    /\ FetchOf(recommendations) = resolved[Len(resolved)]
    /\ nextId > resolved[Len(resolved) - 1]

\* the recommendations request for a location, an optional zone and a
\* day-window, as the backend receives it
RecommendationsRequest(loc, zone, days) ==
    [endpoint |-> "/stargazing-recommendations", body |-> loc,
     params |-> IF zone = 0 THEN [days |-> days]
                ELSE [days |-> days, zone_name |-> zone]]

\* C5: each location submit issues exactly one find-dark-sky-zones request
\* with limit 0 and exactly one stargazing-recommendations request, both with
\* the submitted location; the recommendations request has no zone_name and
\* the currently selected day-window, and the submit clears the selected zone.
C5_LocationSubmitRequests ==
    lastEvent.handler = "handleLocationSubmit" =>
        /\ issued = { [endpoint |-> "/find-dark-sky-zones",
                       body |-> lastEvent.location, params |-> [limit |-> 0]],
                      [endpoint |-> "/stargazing-recommendations",
                       body |-> lastEvent.location,
                       params |-> [days |-> recommendationDays]] }
        /\ selectedZoneForRecommendations = 0

\* the call a handler has just started or continued
LastCall == CHOOSE c \in calls : c.id = lastEvent.id

\* C6: a zone selection or a day-window change with a location set issues
\* exactly one recommendations request, with the location, the selected
\* zone's name (left out when no zone is selected) and the selected days
\* value the handler ran with; when it succeeds the recommendation list is
\* exactly that response, nothing of the previous list remaining.
C6_RefetchRequestAndReplace ==
    /\ (lastEvent.handler = "handleZoneSelection" /\ lastEvent.id # 0) =>
           /\ selectedZoneForRecommendations # 0
           /\ issued = { RecommendationsRequest(location,
                             selectedZoneForRecommendations, recommendationDays) }
    /\ (lastEvent.handler = "daysChange" /\ lastEvent.id # 0) =>
           /\ issued = {}
           /\ \E c \in calls : c.id = lastEvent.id
           /\ LastCall.phase = "delay"
           /\ LastCall.location = location
           /\ LastCall.zone_name = selectedZoneForRecommendations
           /\ LastCall.days = recommendationDays
    /\ lastEvent.handler = "daysRequest" =>
           /\ \E c \in calls : c.id = lastEvent.id
           /\ LastCall.phase = "sent"
           /\ issued = { RecommendationsRequest(LastCall.location,
                             LastCall.zone_name, LastCall.days) }
    /\ lastEvent.handler = "recommendationsResolved" =>
           /\ FetchOf(recommendations) = lastEvent.id
           /\ Len(recommendations) \in DayOptions
           /\ \A i \in 1..Len(recommendations) : recommendations[i].date = i

\* with a zone selected, the day-window went from 7 to 14 and the request
\* that followed names that zone and asks for 14 days
C6_Witness ==
    /\ lastEvent.handler = "daysRequest"
    /\ selectedZoneForRecommendations # 0
    /\ recommendationDays = 14
    /\ issued = { [endpoint |-> "/stargazing-recommendations",
                   body |-> location,
                   params |-> [days |-> 14,
                               zone_name |-> selectedZoneForRecommendations]] }

\* handleSubmit has just run with both coordinate fields filled in, so on
\* its manual-coordinate path: it returned, or it called onLocationSubmit
ManualSubmitJustRan ==
    /\ latitude # << >> /\ longitude # << >>
    /\ \/ lastEvent.handler = "handleSubmit"
       \/ lastEvent.handler = "handleLocationSubmit" /\ lastEvent.via = "coordinates"

\* the coordinate fields do not hold a latitude in [-90, 90] and a longitude
\* in [-180, 180]
BadCoordinates ==
    LET lat == parseFloat(latitude)
        lng == parseFloat(longitude)
    IN  \/ lat.nan \/ lng.nan
        \/ lat.value < 0 - 90 * Unit \/ lat.value > 90 * Unit
        \/ lng.value < 0 - 180 * Unit \/ lng.value > 180 * Unit

\* C7: a manual-coordinate submit whose latitude is outside [-90, 90] or
\* whose longitude is outside [-180, 180], or whose values do not parse as
\* numbers, sets a validation error message, does not call onLocationSubmit
\* and issues no network request.
C7_BadCoordinatesRejected ==
    (ManualSubmitJustRan /\ BadCoordinates) =>
        /\ lastEvent.handler = "handleSubmit"
        /\ lastEvent.outcome = "rejected"
        /\ formError # ""
        /\ issued = {}

\* a submit with latitude -90 and longitude 180.1 was turned down for its
\* longitude
C7_Witness ==
    /\ ManualSubmitJustRan
    /\ latitude = << "-", "9", "0" >>
    /\ longitude = << "1", "8", "0", ".", "1" >>
    /\ lastEvent.outcome = "rejected"
    /\ formError = "Longitude must be between -180 and 180"
    /\ issued = {}

DecimalDigits == {"0", "1", "2", "3", "4", "5", "6", "7", "8", "9"}

\* the text is five digits, or five digits, a hyphen and four digits
MatchesZipcodePattern(s) ==
    \/ /\ Len(s) = 5
       /\ \A i \in 1..5 : s[i] \in DecimalDigits
    \/ /\ Len(s) = 10
       /\ s[6] = "-"
       /\ \A i \in (1..5) \cup (7..10) : s[i] \in DecimalDigits

\* handleSubmit has just run on its zipcode path: the coordinate fields were
\* not both filled in and the zipcode field held more than white space
ZipcodeSubmitJustRan ==
    /\ lastEvent.handler = "handleSubmit"
    /\ ~(latitude # << >> /\ longitude # << >>)
    /\ Trim(zipcode) # << >>

\* handleSubmit set the invalid-zipcode error and returned: no geocoding
\* request, no onLocationSubmit
ZipcodeRejected ==
    /\ lastEvent.outcome = "rejected"
    /\ formError = "Please enter a valid US zipcode (e.g., 12345 or 12345-6789)"
    /\ issued = {}
    /\ pendingLookup.kind # "geocode"
    /\ ~isGeocoding

\* C8 as stated: a submit on the zipcode path with a zipcode field value that
\* does not match ^\d{5}(-\d{4})?$ sets the invalid-zipcode error and returns
\* before any geocoding request and without calling onLocationSubmit.
C8_FieldValueNotMatchingRejected ==
    (ZipcodeSubmitJustRan /\ ~MatchesZipcodePattern(zipcode)) => ZipcodeRejected

\* C8: a submit on the zipcode path with a zipcode field value that, once
\* the white space around it is trimmed, does not match ^\d{5}(-\d{4})?$ sets
\* the invalid-zipcode error and returns before any geocoding request and
\* without calling onLocationSubmit.
C8_TrimmedValueNotMatchingRejected ==
    (ZipcodeSubmitJustRan /\ ~MatchesZipcodePattern(Trim(zipcode))) =>
        ZipcodeRejected

\* a submit of the six digits 902101 was turned down
C8_Witness ==
    /\ ZipcodeSubmitJustRan
    /\ zipcode = << "9", "0", "2", "1", "0", "1" >>
    /\ ZipcodeRejected

\* the geocoding started by handleSubmit has just settled and handleSubmit
\* has gone on to its end
GeocodeJustSettled ==
    /\ pendingLookup.kind = "settled" /\ pendingLookup.was = "geocode"
    /\ \/ lastEvent.handler = "geocodeMiss"
       \/ lastEvent.handler = "handleLocationSubmit" /\ lastEvent.via = "zipcode"

\* C9: when geocoding a valid zipcode yields an empty result or a network
\* error, the form sets a user-facing error message, onLocationSubmit is not
\* called, no backend request is issued, and the geocoding flag is false again.
C9_GeocodeMissReported ==
    (GeocodeJustSettled /\ pendingLookup.outcome \in {"empty", "error"}) =>
        /\ lastEvent.handler = "geocodeMiss"
        /\ formError # ""
        /\ issued = {}
        /\ ~isGeocoding

\* the geocoding of a valid zipcode failed on the network and the form says
\* that no coordinates were found
C9_Witness ==
    /\ GeocodeJustSettled
    /\ pendingLookup.outcome = "error"
    /\ MatchesZipcodePattern(Trim(zipcode))
    /\ formError = "Could not find coordinates for this zipcode. Please try a different zipcode or use manual coordinates."
    /\ ~isGeocoding
    /\ issued = {}

\* C11: a sort-key change and a load-more action (its click and its timer)
\* issue no backend request and leave the fetched zone list, the
\* recommendation list, the location and the selected zone unchanged; they
\* change only the view: sortBy, displayLimit and the animation bookkeeping.
C11_ViewActionsFetchNothing ==
    [][ lastEvent'.handler \in {"sortChange", "handleLoadMore", "loadMoreTimer"} =>
          /\ issued' = {}
          /\ UNCHANGED <<calls, nextId>>
          /\ UNCHANGED <<darkSkyZones, recommendations, location,
                         selectedZoneForRecommendations>>
          /\ UNCHANGED <<userCurrentLocation, error, loading, activeTab,
                         loadingRecommendations, recommendationDays, resolved>>
      ]_vars

\* with a zone selected and its stargazing times loaded, the list was
\* re-sorted and ten zones are shown after a load-more
C11_Witness ==
    /\ lastEvent.handler = "loadMoreTimer"
    /\ sortBy # "distance"
    /\ displayLimit = 10
    /\ selectedZoneForRecommendations # 0
    /\ FetchOf(recommendations) = 2
    /\ Len(darkSkyZones) > 5
    /\ issued = {}

\* C12: the timer of a load-more action raises the display limit by exactly
\* 5 when it fires, at most one load-more timer is pending at a time, a
\* load-more starts only while displayLimit is less than the number of fetched
\* zones, and the display limit is always a multiple of 5 that is at least 5.
C12_LoadMoreSteps ==
    /\ [](/\ displayLimit >= 5
          /\ displayLimit % 5 = 0
          /\ loadMoreTimers \in {0, 1})
    /\ [][ /\ lastEvent'.handler = "loadMoreTimer" =>
                /\ loadMoreTimers = 1 /\ loadMoreTimers' = 0
                /\ displayLimit' = displayLimit + 5
           /\ lastEvent'.handler = "handleLoadMore" =>
                /\ displayLimit < Len(darkSkyZones)
                /\ loadMoreTimers = 0 /\ loadMoreTimers' = 1
                /\ displayLimit' = displayLimit
       ]_vars

\* two load-mores over eleven zones: the second timer has raised the limit
\* from 10 to 15
C12_Witness ==
    /\ lastEvent.handler = "loadMoreTimer"
    /\ Len(darkSkyZones) = 11
    /\ displayLimit = 15
    /\ loadMoreTimers = 0
    /\ Len(sortedDarkSkyZones) = 11

\* C13: as long as the description button has only been pressed while the
\* card was expanded, every toggle of the card's expansion, expanding or
\* collapsing, leaves the description-expansion flag false, and the
\* description is expanded only while the card is expanded.
C13_DescriptionCollapsesWithCard ==
    ~zoneCard.descriptionToggledCollapsed =>
        /\ zoneCard.isDescriptionExpanded => zoneCard.isExpanded
        /\ lastEvent.handler = "handleToggleExpansion" =>
               ~zoneCard.isDescriptionExpanded

\* a card whose description had been expanded has just been collapsed, and
\* its description is truncated again
C13_Witness ==
    /\ lastEvent.handler = "handleToggleExpansion"
    /\ lastEvent.wasExpanded
    /\ lastEvent.descriptionWasExpanded
    /\ ~zoneCard.isExpanded
    /\ ~zoneCard.isDescriptionExpanded
    /\ ~zoneCard.descriptionToggledCollapsed
    /\ zoneCard.descriptionLength > 100
    /\ zoneCard.collapses = 2

\* the timer of the latest collapse is still pending
LatestHintTimerPending ==
    \E i \in 1..Len(zoneCard.hintTimers) :
        zoneCard.hintTimers[i] = zoneCard.collapses

\* C14: every expand or collapse sets the hint flag false in the same step,
\* and the hint is never displayed while the hint timer scheduled by the
\* latest collapse is still pending, under any sequence of rapid toggles.
C14_HintWaitsForLatestCollapse ==
    /\ lastEvent.handler = "handleToggleExpansion" => ~zoneCard.showHint
    /\ LatestHintTimerPending => ~HintDisplayed

\* the windows a click on a map button has opened
OpenedBy(id) ==
    { i \in 1..Len(mapCard.opened) : mapCard.opened[i].click = id }

\* C19: in the geolocation-based map handlers every click on a map button
\* opens exactly one map URL, none while its handler still waits for the
\* position: a route from the user's position to the zone when the position
\* is obtained, a destination-only URL for the zone when permission is denied,
\* the position is unavailable, the request times out or geolocation is
\* unsupported; the three error causes set three different messages; and
\* the button's loading flag is false when the handler ends.
C19_MapButtonOpensOneUrl ==
    /\ \A id \in 1..mapCard.clicks :
           Cardinality(OpenedBy(id)) =
               IF \E p \in mapCard.pending : p.id = id THEN 0 ELSE 1
    /\ lastEvent.handler = "mapHandlerEnds" =>
           LET url == mapCard.opened[CHOOSE i \in OpenedBy(lastEvent.id) : TRUE].url
           IN  /\ url.daddr = CardZone
               /\ IF lastEvent.outcome = "position"
                  THEN url.kind = "route" /\ url.saddr = UserPosition
                  ELSE url.kind = "destination"
               /\ IF lastEvent.mapType = "apple"
                  THEN url.site = "https://maps.apple.com/" /\ ~mapCard.isLoadingApple
                  ELSE /\ url.site = IF url.kind = "route"
                                     THEN "https://www.google.com/maps/dir/"
                                     ELSE "https://www.google.com/maps/place/"
                       /\ ~mapCard.isLoadingGoogle
               /\ lastEvent.outcome = "PERMISSION_DENIED" =>
                      mapCard.locationError =
                          "Location access denied. Opening destination only."
               /\ lastEvent.outcome = "POSITION_UNAVAILABLE" =>
                      mapCard.locationError =
                          "Location unavailable. Opening destination only."
               /\ lastEvent.outcome = "TIMEOUT" =>
                      mapCard.locationError =
                          "Location request timed out. Opening destination only."

\* three clicks have ended: one opened a route, one fell back to the
\* destination after a timeout, one found geolocation unsupported
C19_Witness ==
    /\ mapCard.clicks = 3
    /\ mapCard.pending = {}
    /\ Len(mapCard.opened) = 3
    /\ \E i \in 1..3 : mapCard.opened[i].url.kind = "route"
    /\ lastEvent.handler = "mapHandlerEnds"
    /\ lastEvent.outcome = "TIMEOUT"
    /\ mapCard.locationError = "Location request timed out. Opening destination only."
    /\ ~mapCard.isLoadingApple /\ ~mapCard.isLoadingGoogle

\* the 4-tier threshold table
FourTierBand(score) ==
    IF score >= 80 THEN "green"
    ELSE IF score >= 60 THEN "yellow"
    ELSE IF score >= 40 THEN "orange"
    ELSE "red"

\* the band a text colour class belongs to, by its colour name
BandOfColor(class) ==
    CASE class = "text-green-400"  -> "green"
      [] class = "text-lime-400"   -> "lime"
      [] class = "text-yellow-400" -> "yellow"
      [] class = "text-orange-400" -> "orange"
      [] class \in {"text-red-400", "text-red-500"} -> "red"

\* C17: the astronomy score, the weather score and the combined score of a
\* card are banded by one 4-tier threshold table (>= 80 green, >= 60 yellow,
\* >= 40 orange, else red), so a score is shown in the same colour in all
\* three places and a combined score of 70 is yellow.
C17_OneBandingTable ==
    card.rendered =>
        /\ BandOfColor(card.astronomyColor) = FourTierBand(card.astronomyScore)
        /\ BandOfColor(card.combinedColor) = FourTierBand(card.combinedScore)
        /\ card.weatherShown =>
               BandOfColor(card.weatherColor) = FourTierBand(card.weatherScore)

\* a backend call of a handler has just failed and the handler has caught
\* the error handleApiError threw
BackendCallJustFailed ==
    lastEvent.handler \in {"searchRejected", "recommendationsRejected"}

RateLimitMessage(seconds) ==
    "Rate limit exceeded. Please wait " \o ToString(seconds)
        \o " seconds before trying again."

\* C18: the message of a failed backend call is, in this order,
\* the rate-limit message with detail.retry_after (60 when absent) for HTTP
\* 429, otherwise a present detail.message verbatim, otherwise the call's
\* default message; App stores it as the error.
C18_MessageByPresence ==
    BackendCallJustFailed =>
        LET f == lastEvent.failure
        IN  error =
              IF f.status = 429
              THEN RateLimitMessage(IF f.hasRetryAfter THEN f.retry_after ELSE 60)
              ELSE IF f.hasMessage THEN f.message
              ELSE lastEvent.defaultMessage

\* the endpoints of the backend (api.ts lines 28-53)
BackendRequests(requests) ==
    { r \in requests : r.endpoint \in {"/find-dark-sky-zones",
                                        "/stargazing-recommendations"} }

\* the events in which a request has failed
FailureEvents ==
    {"searchRejected", "recommendationsRejected", "geocodeMiss",
     "geolocationFailed"}

\* the events of a user's action, or of the handler it started going on
UserRequestEvents ==
    {"handleLocationSubmit", "handleZoneSelection", "daysRequest",
     "handleSubmit", "handleGetCurrentLocation"}

\* C15: nothing is retried automatically. Requests go out only in a step
\* of a handler the user started: a location submit sends the two backend
\* requests, a zone selection one, a day-window change one, a zipcode submit
\* one geocoding request, the location button one geolocation request; a step
\* in which a request fails sends nothing and starts no call.
C15_NoAutomaticRetry ==
    /\ [] /\ issued # {} => lastEvent.handler \in UserRequestEvents
          /\ lastEvent.handler = "handleLocationSubmit" =>
                 /\ Cardinality(issued) = 2
                 /\ BackendRequests(issued) = issued
          /\ lastEvent.handler = "handleZoneSelection" /\ lastEvent.id # 0 =>
                 /\ Cardinality(issued) = 1
                 /\ BackendRequests(issued) = issued
          /\ lastEvent.handler = "daysRequest" =>
                 /\ Cardinality(issued) = 1
                 /\ BackendRequests(issued) = issued
          /\ lastEvent.handler = "handleSubmit"
                 /\ lastEvent.outcome = "geocoding" =>
                 issued = { GeocodeRequest(Trim(zipcode)) }
          /\ lastEvent.handler = "handleGetCurrentLocation" =>
                 issued = { GeolocationRequest }
          /\ lastEvent.handler \in FailureEvents => issued = {}
    /\ [][ lastEvent'.handler \in FailureEvents =>
              /\ nextId' = nextId
              /\ { c.id : c \in calls' } \subseteq { c.id : c \in calls }
              /\ \A c \in calls' :
                     \E b \in calls : b.id = c.id /\ b.phase = c.phase
              /\ pendingLookup'.kind \in {"geocode", "geolocation"} =>
                     pendingLookup' = pendingLookup
         ]_vars

\* a backend request has failed while another call is still waiting, and
\* nothing was sent
C15_Witness ==
    /\ lastEvent.handler \in FailureEvents
    /\ issued = {}
    /\ calls # {}
    /\ nextId > 2


\* the location searches whose Promise.all has not settled yet
UnsettledSearches ==
    { c \in SearchCalls : c.zones # "failed" /\ c.recs # "failed" }

\* C16: no failure leaves the UI stuck. When no location search is waiting
\* for its answers loading is false, when no zone or day-window fetch is in
\* flight loadingRecommendations is false, when no geocoding is in flight
\* isGeocoding is false, and when no geolocation is in flight gettingLocation
\* is false.
C16_FlagsClearWhenNothingInFlight ==
    /\ UnsettledSearches = {} => ~loading
    /\ RecommendationCalls = {} => ~loadingRecommendations
    /\ pendingLookup.kind # "geocode" => ~isGeocoding
    /\ pendingLookup.kind # "geolocation" => ~gettingLocation

\* a backend request has failed and then a lookup has failed; nothing is in
\* flight, every flag is down and the form can be submitted again
C16_Witness ==
    /\ error # None
    /\ lastEvent.handler \in {"geocodeMiss", "geolocationFailed"}
    /\ formError # ""
    /\ calls = {}
    /\ ~loading /\ ~loadingRecommendations /\ ~isGeocoding /\ ~gettingLocation
    /\ ~FormDisabled

\* a step of the App or its form that clears the error and neither starts
\* a call nor changes the location, the zones or the recommendations
DismissesError ==
    /\ Next
    /\ error' = None
    /\ nextId' = nextId
    /\ UNCHANGED <<location, darkSkyZones, recommendations>>

\* C20: the error banner is dismissable. In every state where the error is
\* set some step clears it without starting a location search and without
\* changing the location, the zone list or the recommendation list.
C20_ErrorDismissable ==
    error # None => ENABLED DismissesError

\* handleSubmit has just run: it returned, or started geocoding, or called
\* onLocationSubmit with the coordinate fields
SubmitJustRan ==
    \/ lastEvent.handler = "handleSubmit"
    \/ lastEvent.handler = "handleLocationSubmit" /\ lastEvent.via = "coordinates"

\* C21: a submit made while the zipcode field holds a valid zipcode geocodes
\* that zipcode, whatever the coordinate fields hold, and the search that
\* follows is at the geocoded location.
C21_ValidZipcodeIsGeocoded ==
    /\ SubmitJustRan /\ zipcodeRegexTest(Trim(zipcode)) =>
           /\ lastEvent.handler = "handleSubmit"
           /\ lastEvent.outcome = "geocoding"
           /\ issued = { GeocodeRequest(Trim(zipcode)) }
    /\ lastEvent.handler = "handleLocationSubmit" /\ lastEvent.via = "zipcode" =>
           location = GeocodedLocation(Trim(zipcode))

\* C22: loadingRecommendations is true in every state in which a zone or
\* day-window recommendation fetch is in flight, the delay before a
\* day-window request included, so the View Stargazing Times buttons stay
\* disabled until every such fetch has settled.
C22_LoadingWhileFetchInFlight ==
    RecommendationCalls # {} => loadingRecommendations

\* C23: after a sort-key change or a new location search the display limit
\* stays 5 until the user next presses Show More. In the state a reset has
\* just produced nothing has been pressed since, so whichever step comes
\* next, a load-more timer that was pending included, leaves the limit at 5.
C23_ResetSurvivesPendingTimer ==
    [][ lastEvent.handler \in {"sortChange", "handleLocationSubmit"} =>
            displayLimit' = InitialDisplayLimit ]_vars

\* the steps that enter the form's handlers from the submit button or the
\* Use Current Location button
FormControlUsed ==
    \/ lastEvent'.handler \in {"handleSubmit", "handleGetCurrentLocation"}
    \/ lastEvent'.handler = "handleLocationSubmit"
           /\ lastEvent'.via = "coordinates"

\* C24 as stated: at most one location search is in flight; while loading,
\* geocoding or geolocation is in progress the form's two buttons do
\* nothing; handleLocationSubmit is never entered while a request of an
\* earlier search is unanswered; loading is true exactly while a request of
\* a location search is in flight.
C24_OneSearchWithRequestsInFlight ==
    /\ [] /\ Cardinality(SearchCalls) <= 1
          /\ loading <=> SearchCalls # {}
    /\ [][ /\ FormDisabled => ~FormControlUsed
           /\ lastEvent'.handler = "handleLocationSubmit" /\ nextId' # nextId =>
                  SearchCalls = {}
         ]_vars

\* C24, amended: the same with a search counted as in flight until its
\* Promise.all settles, which a first rejection does while the other
\* request of the pair is still unanswered.
C24_OneUnsettledSearch ==
    /\ [] /\ Cardinality(UnsettledSearches) <= 1
          /\ loading <=> UnsettledSearches # {}
    /\ [][ /\ FormDisabled => ~FormControlUsed
           /\ lastEvent'.handler = "handleLocationSubmit" /\ nextId' # nextId =>
                  UnsettledSearches = {}
         ]_vars

\* a new search is awaited, and loading is true, while a request of an
\* earlier search, whose other request was rejected, is still unanswered
C24_Witness ==
    /\ loading
    /\ Cardinality(UnsettledSearches) = 1
    /\ Cardinality(SearchCalls) = 2
    /\ error = None

\* one of the two requests of the location search c has been rejected
HasFailedRequest(c) == c.zones = "failed" \/ c.recs = "failed"

\* C25: when a backend fetch fails (location search, zone fetch or
\* day-window fetch) the step that handles the failure leaves the zone list,
\* the recommendation list and the active tab as they are and sets the error
\* message; a location search one of whose requests was rejected never shows
\* the answer of the other request, whether it came before or comes after.
C25_FailureKeepsLists ==
    /\ [][ lastEvent'.handler \in {"searchRejected", "recommendationsRejected"} =>
              /\ UNCHANGED <<darkSkyZones, recommendations, activeTab>>
              /\ error' # None
              /\ error' = handleApiError(lastEvent'.failure,
                                         lastEvent'.defaultMessage)
         ]_vars
    /\ [][ \A c \in SearchCalls :
              c \notin calls' /\ HasFailedRequest(c) =>
                  UNCHANGED <<darkSkyZones, recommendations, activeTab>>
         ]_vars
    /\ [] \A c \in SearchCalls :
              HasFailedRequest(c) =>
                  \A i \in DOMAIN resolved : resolved[i] # c.id

\* the second search's requests are both answered, one of them with a
\* failure: the error is set and the lists of the first search are still shown
C25_Witness ==
    /\ lastEvent.handler = "searchRejected"
    /\ lastEvent.id > 1
    /\ SearchCalls = {}
    /\ error # None
    /\ darkSkyZones # << >>
    /\ recommendations # << >>

\* C26: when the fetch of a zone selection fails the selected zone is the
\* one it was before the selection, the zone whose recommendations are still
\* displayed, so that a later day-window change does not ask for the zone
\* whose fetch failed. Stated for a failure that is handled right after the
\* selection, with nothing in between.
C26_FailedSelectionRestored ==
    [][ /\ lastEvent.handler = "handleZoneSelection"
        /\ lastEvent.id # 0
        /\ lastEvent'.handler = "recommendationsRejected"
        /\ lastEvent'.id = lastEvent.id
        => selectedZoneForRecommendations' = lastEvent.selectedBefore ]_vars

\* C27: the hint label is never displayed while the zone card is expanded,
\* also when a hint timer scheduled by an earlier collapse fires after the
\* card has been expanded again.
C27_NoHintWhileExpanded ==
    zoneCard.isExpanded => ~HintDisplayed

\* the timer of an earlier collapse has fired on the card expanded again:
\* showHint is true and the label is not rendered
C27_Witness ==
    /\ lastEvent.handler = "hintTimer"
    /\ zoneCard.isExpanded
    /\ zoneCard.showHint
    /\ ~HintDisplayed

\* C28: a map button opens a route link from the stored user position
\* exactly when some earlier submit came from Use Current Location, and a
\* destination link otherwise. The stored position starts empty, each submit
\* from the location button stores its location, every other step (manual
\* and zipcode submits included) leaves it as it is, and a click opens one
\* URL, the route if a position is stored, and ends with the loading flags
\* false.
C28_RouteIffPositionStored ==
    /\ userCurrentLocation = NoLocation
    /\ [][ IF lastEvent'.handler = "handleLocationSubmit"
              /\ lastEvent'.via = "geolocation"
           THEN userCurrentLocation' = lastEvent'.location
                   /\ userCurrentLocation'.set
           ELSE UNCHANGED userCurrentLocation ]_vars
    /\ [] (lastEvent.handler = "handleMapAction" =>
              /\ Len(lastEvent.opened) = 1
              /\ lastEvent.opened[1] =
                     IF userCurrentLocation.set
                     THEN RouteUrl(lastEvent.mapType, StoredPosition, CardZone)
                     ELSE DestinationUrl(lastEvent.mapType, CardZone)
              /\ ~zoneCard.isLoadingApple /\ ~zoneCard.isLoadingGoogle)

\* a route link is opened from the position of an earlier Use Current
\* Location, after a later submit from the form moved the search elsewhere
C28_Witness ==
    /\ lastEvent.handler = "handleMapAction"
    /\ lastEvent.opened[1].kind = "route"
    /\ lastEvent.opened[1].saddr = StoredPosition
    /\ location # userCurrentLocation

\* C29: whenever the recommendation list is non-empty exactly one card is
\* marked Best Recommendation, and its combined score is at least the
\* combined score of every other displayed recommendation.
C29_BestCardHasBestScore ==
    (card.rendered /\ card.recommendations # << >>) =>
        /\ Cardinality({ i \in DOMAIN card.cards :
                            card.cards[i].isTopRecommendation }) = 1
        /\ \A i \in DOMAIN card.cards : \A j \in DOMAIN card.cards :
               card.cards[i].isTopRecommendation =>
                   card.cards[i].combinedScore >= card.cards[j].combinedScore

=============================================================================
